---------------------------- MODULE Spec2Model ----------------------------
(***************************************************************************)
(* A model of libuci's delta engine: the in-memory tree of a package       *)
(* (list.c), the save file written by uci_save and replayed by             *)
(* uci_load_history (history.c), load/commit of the file backend (file.c)  *)
(* and the stream locks of util.c.                                         *)
(*                                                                         *)
(* C strings are sequences of one-character strings; a NULL pointer is the *)
(* value Null.  The canonical file is held as its logical lines, each the  *)
(* command keyword followed by its argument strings; the save file is held *)
(* as its lines, each the exact characters uci_save prints.                *)
(***************************************************************************)
EXTENDS Integers, Sequences, FiniteSets, TLC

VARIABLES
    canon,      \* canonical file <confdir>/n: sequence of logical lines
    savef,      \* save file <savedir>/n: sequence of lines (character strings)
    pkg,        \* the context's package n (NoPkg when it is not in the root)
    last,       \* the last public call made on the context and its result
    fresh,      \* the save file holds only what pkg saved since a load on an empty one
    nops,       \* number of public calls made so far
    ctx,        \* the contexts of the processes that share confdir and savedir
    lock,       \* the flock each process holds on the canonical file
    calls,      \* the calls of the two processes that have returned, in that order
    faults,     \* number of system calls that have failed so far
    ctxroot     \* ctx->root of the importing context: its packages in list order

vars == <<canon, savef, pkg, last, fresh, nops, ctx, lock, calls, faults, ctxroot>>
onevars == <<pkg, last, fresh, nops>>
procvars == <<ctx, lock, calls, faults>>

-----------------------------------------------------------------------------
(* Bounds of the model *)

MaxOps == 4         \* public calls of the single context
MaxProcOps == 4     \* public calls of each of the two processes
MaxSets == 1        \* uci_set calls of each of the two processes
MaxCommits == 1     \* uci_commit calls of each of the two processes
MaxFaults == 1      \* failing system calls

-----------------------------------------------------------------------------
(* Strings *)

Null == <<"NULL">>
NoPkg == [name |-> Null]

UCI_OK == "UCI_OK"
UCI_ERR_MEM == "UCI_ERR_MEM"
UCI_ERR_INVAL == "UCI_ERR_INVAL"
UCI_ERR_NOTFOUND == "UCI_ERR_NOTFOUND"
UCI_ERR_IO == "UCI_ERR_IO"
UCI_ERR_PARSE == "UCI_ERR_PARSE"
UCI_ERR_DUPLICATE == "UCI_ERR_DUPLICATE"

\* character codes of the characters the model's strings are made of
Ord ==
    [c \in {"0","1","2","3","4","5","6","7","8","9","a","b","c","d","e","f",
            "g","l","n","o","s","t","u","x","y","_",".","=","-","@","|","+",
            "[","]","'"," ","\\","\n","\t"} |->
        CASE c = "0" -> 48 [] c = "1" -> 49 [] c = "2" -> 50 [] c = "3" -> 51
          [] c = "4" -> 52 [] c = "5" -> 53 [] c = "6" -> 54 [] c = "7" -> 55
          [] c = "8" -> 56 [] c = "9" -> 57
          [] c = "a" -> 97 [] c = "b" -> 98 [] c = "c" -> 99 [] c = "d" -> 100
          [] c = "e" -> 101 [] c = "f" -> 102 [] c = "g" -> 103
          [] c = "l" -> 108 [] c = "n" -> 110 [] c = "o" -> 111
          [] c = "s" -> 115 [] c = "t" -> 116 [] c = "u" -> 117
          [] c = "x" -> 120 [] c = "y" -> 121 [] c = "_" -> 95
          [] c = "." -> 46 [] c = "=" -> 61 [] c = "-" -> 45 [] c = "@" -> 64
          [] c = "|" -> 124 [] c = "+" -> 43
          [] c = "[" -> 91 [] c = "]" -> 93 [] c = "'" -> 39 [] c = " " -> 32
          [] c = "\\" -> 92 [] c = "\n" -> 10 [] c = "\t" -> 9]

\* isalnum() on a character code
isalnum(o) ==
    (o >= 48 /\ o <= 57) \/ (o >= 65 /\ o <= 90) \/ (o >= 97 /\ o <= 122)

\* the test uci_validate_str makes on one character
ValidChar(o, name) ==
    isalnum(o) \/ o = 95 \/ ~(name \/ o < 33 \/ o > 126)

\* a mutant of uci_validate_str: names are validated as loosely as types
uci_validate_str_loose(str, name) ==
    /\ str # Null
    /\ str # <<>>
    /\ \A i \in 1..Len(str) : ValidChar(Ord[str[i]], FALSE)

uci_validate_str(str, name) ==
    /\ str # Null
    /\ str # <<>>
    /\ \A i \in 1..Len(str) : ValidChar(Ord[str[i]], name)

uci_validate_package(str) == uci_validate_str(str, FALSE)
uci_validate_type(str) == uci_validate_str(str, FALSE)
uci_validate_name(str) == uci_validate_str(str, TRUE)

\* the test uci_validate_text makes on one character
TextChar(o) == ~(o = 13 \/ o = 10 \/ (o < 32 /\ o # 9))

uci_validate_text(str) ==
    \A i \in 1..Len(str) : TextChar(Ord[str[i]])

-----------------------------------------------------------------------------
(* djbhash on 32-bit unsigned values, held as <<high 16 bits, low 16 bits>> *)

HashInit == <<65535, 65535>>        \* ~0

\* hash = ((hash << 5) + hash) + c, on 32 bits
djbcarry(hi, lo) == <<(hi + (lo \div 65536)) % 65536, lo % 65536>>

djbstep(h, c) == djbcarry(h[1] * 33, h[2] * 33 + c)

RECURSIVE djbloop(_, _, _)
djbloop(h, str, i) ==
    IF i > Len(str) THEN h ELSE djbloop(djbstep(h, Ord[str[i]]), str, i + 1)

\* hash & 0x7FFFFFFF
Mask31(h) == <<h[1] % 32768, h[2]>>

djbhash(hash, str) ==
    Mask31(djbloop(IF hash = HashInit THEN <<0, 5381>> ELSE hash, str, 1))

HexDigit == <<"0","1","2","3","4","5","6","7","8","9","a","b","c","d","e","f">>

RECURSIVE HexStr(_, _)
\* printf("%0<w>x", n)
HexStr(n, w) ==
    IF n < 16
    THEN [i \in 1..(IF w > 1 THEN w - 1 ELSE 0) |-> "0"] \o <<HexDigit[n + 1]>>
    ELSE HexStr(n \div 16, w - 1) \o <<HexDigit[(n % 16) + 1]>>

-----------------------------------------------------------------------------
(* The tree of a package: list.c *)

RemoveAt(seq, i) == SubSeq(seq, 1, i - 1) \o SubSeq(seq, i + 1, Len(seq))

Ok(p) == [err |-> UCI_OK, p |-> p]
Throw(e, p) == [err |-> e, p |-> p]

\* index of the first element of that name, 0 when there is none
uci_lookup_list(list, name) ==
    IF \E i \in 1..Len(list) : list[i].name = name
    THEN CHOOSE i \in 1..Len(list) :
            /\ list[i].name = name
            /\ \A j \in 1..(i - 1) : list[j].name # name
    ELSE 0

uci_alloc_package(name) ==
    [name |-> name, sections |-> <<>>, history |-> <<>>, n_section |-> 0,
     has_history |-> FALSE]

\* appends one record to the package's pending history
uci_add_history(p, cmd, section, option, value) ==
    [p EXCEPT !.history =
        Append(@, [cmd |-> cmd, section |-> section, name |-> option, value |-> value])]

\* a mutant of LogHistory: logs whatever the internal flag says
LogHistoryAlways(p, internal, cmd, section, option, value) ==
    IF p.has_history THEN uci_add_history(p, cmd, section, option, value) ELSE p

\* a mutant of LogHistory: logs every record twice
LogHistoryTwice(p, internal, cmd, section, option, value) ==
    IF ~internal /\ p.has_history
    THEN uci_add_history(uci_add_history(p, cmd, section, option, value),
                         cmd, section, option, value)
    ELSE p

\* if (!internal && p->has_history) uci_add_history(...)
LogHistory(p, internal, cmd, section, option, value) ==
    IF ~internal /\ p.has_history
    THEN uci_add_history(p, cmd, section, option, value)
    ELSE p

StringOption(name, value) ==
    [name |-> name, type |-> "string", string |-> value, list |-> <<>>]

ListOption(name, items) ==
    [name |-> name, type |-> "list", string |-> Null, list |-> items]

\* appends a scalar option to section si
uci_alloc_option(p, si, name, value) ==
    [p EXCEPT !.sections[si].options = Append(@, StringOption(name, value))]

\* appends an empty list option to section si
uci_alloc_list(p, si, name) ==
    [p EXCEPT !.sections[si].options = Append(@, ListOption(name, <<>>))]

uci_free_option(p, si, oi) ==
    [p EXCEPT !.sections[si].options = RemoveAt(@, oi)]

uci_free_section(p, si) ==
    [p EXCEPT !.sections = RemoveAt(@, si)]

\* the hash after one option of the loop of uci_fixup_section
OptionHash(h1, o) ==
    IF o.type = "string" THEN djbhash(h1, o.string) ELSE h1

RECURSIVE SectionHash(_, _, _)
SectionHash(hash, options, i) ==
    IF i > Len(options) THEN hash
    ELSE SectionHash(OptionHash(djbhash(hash, options[i].name), options[i]),
                     options, i + 1)

\* the name sprintf(buf, "cfg%02x%04x", counter, hash % (1 << 16)) prints
AnonName(counter, hash) ==
    <<"c", "f", "g">> \o HexStr(counter, 2) \o HexStr(hash[2], 4)

\* a mutant of uci_fixup_section: the name of the package is hashed as well
uci_fixup_section_package(p, si) ==
    IF si = 0 THEN p
    ELSE IF p.sections[si].name # Null THEN p
    ELSE [p EXCEPT !.n_section = @ + 1,
                   !.sections[si].name =
                        AnonName(p.n_section + 1,
                                 SectionHash(djbhash(djbhash(HashInit, p.name),
                                                     p.sections[si].type),
                                             p.sections[si].options, 1))]

uci_fixup_section(p, si) ==
    IF si = 0 THEN p
    ELSE IF p.sections[si].name # Null THEN p
    ELSE [p EXCEPT !.n_section = @ + 1,
                   !.sections[si].name =
                        AnonName(p.n_section + 1,
                                 SectionHash(djbhash(HashInit, p.sections[si].type),
                                             p.sections[si].options, 1))]

\* a mutant of uci_alloc_section: every section is created anonymous
uci_alloc_section_anon(p, type, name) ==
    [p EXCEPT !.sections =
                Append(@, [name |-> IF name = <<>> THEN Null ELSE name,
                           type |-> type,
                           anonymous |-> TRUE,
                           options |-> <<>>]),
              !.n_section = @ + 1]

uci_alloc_section(p, type, name) ==
    [p EXCEPT !.sections =
                Append(@, [name |-> IF name = <<>> THEN Null ELSE name,
                           type |-> type,
                           anonymous |-> (name = Null \/ name = <<>>),
                           options |-> <<>>]),
              !.n_section = @ + 1]

\* uci_lookup: <<err, section index, option index>>
uci_lookup(p, section, option) ==
    LET FoundOption(si, oi) ==
            IF oi = 0 THEN <<UCI_ERR_NOTFOUND, si, 0>> ELSE <<UCI_OK, si, oi>>
        FoundSection(si) ==
            IF si = 0 THEN <<UCI_ERR_NOTFOUND, 0, 0>>
            ELSE IF option = Null THEN <<UCI_OK, si, 0>>
            ELSE FoundOption(si, uci_lookup_list(p.sections[si].options, option))
    IN  IF ~uci_validate_name(section) THEN <<UCI_ERR_INVAL, 0, 0>>
        ELSE IF option # Null /\ ~uci_validate_name(option) THEN <<UCI_ERR_INVAL, 0, 0>>
        ELSE FoundSection(uci_lookup_list(p.sections, section))

\* uci_del_element of option oi of section si
uci_del_option(p, si, oi, internal) ==
    uci_free_option(
        LogHistory(p, internal, "UCI_CMD_REMOVE", p.sections[si].name,
                   p.sections[si].options[oi].name, Null),
        si, oi)

RECURSIVE uci_del_options(_, _)
\* uci_foreach_element_safe(&s->options, tmp, i) uci_del_element(ctx, i);
\* UCI_HANDLE_ERR of the outer call has cleared ctx->internal by then
uci_del_options(p, si) ==
    IF p.sections[si].options = <<>> THEN p
    ELSE uci_del_options(uci_del_option(p, si, 1, FALSE), si)

\* uci_del_element of section si
uci_del_section(p, si, internal) ==
    LET Emptied(p1) ==
            uci_free_section(
                LogHistory(p1, internal, "UCI_CMD_REMOVE", p1.sections[si].name,
                           Null, Null),
                si)
    IN  Emptied(uci_del_options(p, si))

uci_delete(p, section, option, internal) ==
    LET Found(r) ==
            IF r[1] # UCI_OK THEN Throw(r[1], p)
            ELSE IF option = Null THEN Ok(uci_del_section(p, r[2], internal))
            ELSE Ok(uci_del_option(p, r[2], r[3], internal))
    IN  Found(uci_lookup(p, section, option))

\* uci_set_element_value on section si (the value is its type)
uci_set_section_type(p, si, value, internal) ==
    IF ~uci_validate_str(value, FALSE) THEN Throw(UCI_ERR_INVAL, p)
    ELSE IF value = p.sections[si].type THEN Ok(p)
    ELSE Ok([LogHistory(p, internal, "UCI_CMD_CHANGE", p.sections[si].name, Null, value)
                EXCEPT !.sections[si].type = value])

\* a mutant of uci_set_option_value: a string is set without the comparison
\* with the value it has
uci_set_option_value_always(p, si, oi, value, internal) ==
    IF value = Null THEN Throw(UCI_ERR_INVAL, p)
    ELSE IF p.sections[si].options[oi].type = "string"
    THEN Ok([LogHistory(p, internal, "UCI_CMD_CHANGE", p.sections[si].name,
                        p.sections[si].options[oi].name, value)
                EXCEPT !.sections[si].options[oi].string = value])
    ELSE Ok(uci_del_option(
                uci_alloc_option(
                    LogHistory(p, internal, "UCI_CMD_CHANGE", p.sections[si].name,
                               p.sections[si].options[oi].name, value),
                    si, p.sections[si].options[oi].name, value),
                si, oi, TRUE))

\* uci_set_element_value on option oi of section si
uci_set_option_value(p, si, oi, value, internal) ==
    IF value = Null THEN Throw(UCI_ERR_INVAL, p)
    ELSE IF p.sections[si].options[oi].type = "string"
    THEN IF value = p.sections[si].options[oi].string THEN Ok(p)
         ELSE Ok([LogHistory(p, internal, "UCI_CMD_CHANGE", p.sections[si].name,
                             p.sections[si].options[oi].name, value)
                     EXCEPT !.sections[si].options[oi].string = value])
    ELSE \* a list: re-created as a string at the tail, then the list is deleted
         Ok(uci_del_option(
                uci_alloc_option(
                    LogHistory(p, internal, "UCI_CMD_CHANGE", p.sections[si].name,
                               p.sections[si].options[oi].name, value),
                    si, p.sections[si].options[oi].name, value),
                si, oi, TRUE))

uci_set(p, section, option, value, internal) ==
    LET Logged(p1, si) ==
            IF si # 0 THEN Ok(uci_alloc_option(p1, si, option, value))
            ELSE Ok(uci_alloc_section(p1, value, section))
        NotFound(si) ==
            IF si = 0 /\ option # Null THEN Throw(UCI_ERR_NOTFOUND, p)
            ELSE Logged(LogHistory(p, internal, "UCI_CMD_CHANGE", section, option, value),
                        si)
        FoundOption(si, oi) ==
            IF oi = 0 THEN NotFound(si)
            ELSE uci_set_option_value(p, si, oi, value, internal)
        FoundSection(si) ==
            IF si = 0 THEN NotFound(0)
            ELSE IF option = Null THEN uci_set_section_type(p, si, value, internal)
            ELSE FoundOption(si, uci_lookup_list(p.sections[si].options, option))
    IN  IF ~uci_validate_name(section) THEN Throw(UCI_ERR_INVAL, p)
        ELSE IF option # Null /\ ~uci_validate_name(option) THEN Throw(UCI_ERR_INVAL, p)
        ELSE IF option # Null /\ value = Null THEN Throw(UCI_ERR_INVAL, p)
        ELSE IF option = Null /\ ~uci_validate_str(value, FALSE) THEN Throw(UCI_ERR_INVAL, p)
        ELSE FoundSection(uci_lookup_list(p.sections, section))

\* the body of uci_set for an option of section si, once the section is found
uci_set_in(p, si, option, value, internal) ==
    LET Found(oi) ==
            IF oi = 0
            THEN Ok(uci_alloc_option(
                        LogHistory(p, internal, "UCI_CMD_CHANGE", p.sections[si].name,
                                   option, value),
                        si, option, value))
            ELSE uci_set_option_value(p, si, oi, value, internal)
    IN  Found(uci_lookup_list(p.sections[si].options, option))

\* uci_set for a section, as the parser calls it: an empty name is no name
\* to uci_alloc_section, and the section stays unnamed until
\* uci_fixup_section names it
uci_set_section(p, name, type, internal) ==
    IF name # <<>> THEN uci_set(p, name, Null, type, internal)
    ELSE IF ~uci_validate_str(type, FALSE) THEN Throw(UCI_ERR_INVAL, p)
    ELSE Ok(uci_alloc_section(p, type, name))

\* a mutant of uci_rename: renaming a section clears its anonymous flag
uci_rename_named(p, section, option, name, internal) ==
    LET Logged(p1, r) ==
            IF option = Null
            THEN Ok([p1 EXCEPT !.sections[r[2]].name = name,
                               !.sections[r[2]].anonymous = FALSE])
            ELSE Ok([p1 EXCEPT !.sections[r[2]].options[r[3]].name = name])
        Found(r) ==
            IF r[1] # UCI_OK THEN Throw(r[1], p)
            ELSE Logged(LogHistory(p, internal, "UCI_CMD_RENAME", section, option, name), r)
    IN  Found(uci_lookup(p, section, option))

\* a mutant of uci_rename: a name a sibling already has is refused
uci_rename_unique(p, section, option, name, internal) ==
    LET Logged(p1, r) ==
            IF option = Null
            THEN IF uci_lookup_list(p.sections, name) # 0
                 THEN Throw(UCI_ERR_DUPLICATE, p)
                 ELSE Ok([p1 EXCEPT !.sections[r[2]].name = name])
            ELSE IF uci_lookup_list(p.sections[r[2]].options, name) # 0
                 THEN Throw(UCI_ERR_DUPLICATE, p)
                 ELSE Ok([p1 EXCEPT !.sections[r[2]].options[r[3]].name = name])
        Found(r) ==
            IF r[1] # UCI_OK THEN Throw(r[1], p)
            ELSE Logged(LogHistory(p, internal, "UCI_CMD_RENAME", section, option, name), r)
    IN  Found(uci_lookup(p, section, option))

uci_rename(p, section, option, name, internal) ==
    LET Logged(p1, r) ==
            IF option = Null
            THEN Ok([p1 EXCEPT !.sections[r[2]].name = name])
            ELSE Ok([p1 EXCEPT !.sections[r[2]].options[r[3]].name = name])
        Found(r) ==
            IF r[1] # UCI_OK THEN Throw(r[1], p)
            ELSE Logged(LogHistory(p, internal, "UCI_CMD_RENAME", section, option, name), r)
    IN  Found(uci_lookup(p, section, option))

uci_add_section(p, type, internal) ==
    LET Fixed(p2) ==
            Ok(LogHistory(p2, internal, "UCI_CMD_ADD",
                          p2.sections[Len(p2.sections)].name, Null, type))
        Allocated(p1) == Fixed(uci_fixup_section(p1, Len(p1.sections)))
    IN  Allocated(uci_alloc_section(p, type, Null))

\* a mutant of uci_add_element_list: the item is put at the head of the list
uci_add_element_list_head(p, si, oi, value, internal) ==
    IF p.sections[si].options[oi].type # "list" THEN Throw(UCI_ERR_INVAL, p)
    ELSE IF ~uci_validate_text(value) THEN Throw(UCI_ERR_INVAL, p)
    ELSE Ok([LogHistory(p, internal, "UCI_CMD_LIST_ADD", p.sections[si].name,
                        p.sections[si].options[oi].name, value)
                EXCEPT !.sections[si].options[oi].list = <<value>> \o @])

\* uci_add_element_list on option oi of section si
uci_add_element_list(p, si, oi, value, internal) ==
    IF p.sections[si].options[oi].type # "list" THEN Throw(UCI_ERR_INVAL, p)
    ELSE IF ~uci_validate_text(value) THEN Throw(UCI_ERR_INVAL, p)
    ELSE Ok([LogHistory(p, internal, "UCI_CMD_LIST_ADD", p.sections[si].name,
                        p.sections[si].options[oi].name, value)
                EXCEPT !.sections[si].options[oi].list = Append(@, value)])

\* the body of uci_add_list once the section is found
uci_add_list_in(p, si, option, value, internal) ==
    LET Converted(p2, oi, ni) ==
            uci_add_element_list(uci_free_option(p2, si, oi), si, ni - 1, value, internal)
        Allocated(p1, oi, ni) ==
            IF oi # 0
            THEN \* a string: its value becomes the first item of the list
                 Converted(uci_add_element_list(p1, si, ni,
                                                p.sections[si].options[oi].string, TRUE).p,
                           oi, ni)
            ELSE uci_add_element_list(p1, si, ni, value, internal)
        Found(oi) ==
            IF oi # 0 /\ p.sections[si].options[oi].type = "list"
            THEN uci_add_element_list(p, si, oi, value, internal)
            ELSE Allocated(uci_alloc_list(p, si, option), oi,
                           Len(p.sections[si].options) + 1)
    IN  Found(uci_lookup_list(p.sections[si].options, option))

uci_add_list(p, section, option, value, internal) ==
    LET Found(r) ==
            IF r[1] # UCI_OK THEN Throw(r[1], p)
            ELSE uci_add_list_in(p, r[2], option, value, internal)
    IN  IF section = Null \/ option = Null \/ value = Null THEN Throw(UCI_ERR_INVAL, p)
        ELSE IF ~uci_validate_text(value) THEN Throw(UCI_ERR_INVAL, p)
        ELSE Found(uci_lookup(p, section, Null))

-----------------------------------------------------------------------------
(* The save file: history.c *)

Dot == <<".">>

\* the line uci_save prints for one history record (without its newline)
HistoryLine(pname, h) ==
    (IF h.cmd = "UCI_CMD_REMOVE" THEN <<"-">>
     ELSE IF h.cmd = "UCI_CMD_RENAME" THEN <<"@">> ELSE <<>>)
    \o pname \o Dot \o h.section
    \o (IF h.name # Null THEN Dot \o h.name ELSE <<>>)
    \o (IF h.cmd = "UCI_CMD_REMOVE" THEN <<>> ELSE <<"=">> \o h.value)

\* position of the first c in str at or after i, Len(str) + 1 when there is none
RECURSIVE strchr(_, _, _)
strchr(str, c, i) ==
    IF i > Len(str) THEN Len(str) + 1
    ELSE IF str[i] = c THEN i ELSE strchr(str, c, i + 1)

\* successive strsep(&str, ".") calls: the components of str between dots
RECURSIVE strsep(_)
strsep(str) ==
    LET Cut(d) ==
            IF d > Len(str) THEN <<str>>
            ELSE <<SubSeq(str, 1, d - 1)>> \o strsep(SubSeq(str, d + 1, Len(str)))
    IN  Cut(strchr(str, ".", 1))

\* uci_parse_tuple: <package>[.<section>[.<option>]][=<value>]
uci_parse_tuple(str) ==
    LET Parts(parts, value) ==
            IF Len(parts) > 3 \/ ~uci_validate_str(parts[1], FALSE)
            THEN [err |-> UCI_ERR_PARSE, package |-> Null, section |-> Null,
                  option |-> Null, value |-> Null]
            ELSE [err |-> UCI_OK, package |-> parts[1],
                  section |-> IF Len(parts) >= 2 THEN parts[2] ELSE Null,
                  option |-> IF Len(parts) >= 3 THEN parts[3] ELSE Null,
                  value |-> value]
        Split(eq) ==
            Parts(strsep(SubSeq(str, 1, eq - 1)),
                  IF eq > Len(str) THEN Null ELSE SubSeq(str, eq + 1, Len(str)))
    IN  Split(strchr(str, "=", 1))

\* a mutant of uci_parse_history_line: the value of a line is not validated
uci_parse_history_line_anyvalue(p, line) ==
    LET Tuple(t, delete, rename) ==
            IF t.err # UCI_OK THEN Throw(UCI_ERR_PARSE, p)
            ELSE IF t.package = Null \/ t.package # p.name THEN Throw(UCI_ERR_PARSE, p)
            ELSE IF ~uci_validate_name(t.section) THEN Throw(UCI_ERR_PARSE, p)
            ELSE IF t.option # Null /\ ~uci_validate_name(t.option)
                 THEN Throw(UCI_ERR_PARSE, p)
            ELSE IF rename THEN uci_rename(p, t.section, t.option, t.value, TRUE)
            ELSE IF delete THEN uci_delete(p, t.section, t.option, TRUE)
            ELSE uci_set(p, t.section, t.option, t.value, TRUE)
    IN  IF line[1] = "-" THEN Tuple(uci_parse_tuple(Tail(line)), TRUE, FALSE)
        ELSE IF line[1] = "@" THEN Tuple(uci_parse_tuple(Tail(line)), FALSE, TRUE)
        ELSE Tuple(uci_parse_tuple(line), FALSE, FALSE)

uci_parse_history_line(p, line) ==
    LET Tuple(t, delete, rename) ==
            IF t.err # UCI_OK THEN Throw(UCI_ERR_PARSE, p)
            ELSE IF t.package = Null \/ t.package # p.name THEN Throw(UCI_ERR_PARSE, p)
            ELSE IF ~uci_validate_name(t.section) THEN Throw(UCI_ERR_PARSE, p)
            ELSE IF t.option # Null /\ ~uci_validate_name(t.option)
                 THEN Throw(UCI_ERR_PARSE, p)
            ELSE IF (rename \/ ~delete) /\ ~uci_validate_name(t.value)
                 THEN Throw(UCI_ERR_PARSE, p)
            ELSE IF rename THEN uci_rename(p, t.section, t.option, t.value, TRUE)
            ELSE IF delete THEN uci_delete(p, t.section, t.option, TRUE)
            ELSE uci_set(p, t.section, t.option, t.value, TRUE)
    IN  IF line[1] = "-" THEN Tuple(uci_parse_tuple(Tail(line)), TRUE, FALSE)
        ELSE IF line[1] = "@" THEN Tuple(uci_parse_tuple(Tail(line)), FALSE, TRUE)
        ELSE Tuple(uci_parse_tuple(line), FALSE, FALSE)

\* a physical line uci_getln gives up on: longer than LINEBUF_MAX
LineTooLong == <<"line too long">>

RECURSIVE uci_parse_history(_, _, _, _)
\* replays lines[i..]; changes counts the lines replayed without an error;
\* the error of uci_getln is thrown outside the trap of the line and ends
\* the replay
uci_parse_history(p, lines, i, changes) ==
    LET Replayed(r) ==
            uci_parse_history(r.p, lines, i + 1,
                              IF r.err = UCI_OK THEN changes + 1 ELSE changes)
    IN  IF i > Len(lines) THEN [p |-> p, changes |-> changes]
        ELSE IF lines[i] = LineTooLong THEN [p |-> p, changes |-> changes]
        ELSE IF lines[i] = <<>> THEN uci_parse_history(p, lines, i + 1, changes)
        ELSE Replayed(uci_parse_history_line(p, lines[i]))

\* uci_load_history: the package after the replay, the save file it leaves
uci_load_history(p, file, flush) ==
    LET Parsed(r) ==
            [p |-> r.p, file |-> IF flush THEN <<>> ELSE file, changes |-> r.changes]
    IN  IF ~p.has_history THEN [p |-> p, file |-> file, changes |-> 0]
        ELSE Parsed(uci_parse_history(p, file, 1, 0))

\* what uci_load_history returns to uci_file_commit
uci_load_history_changes(r) == r.changes

RECURSIVE HistoryLines(_, _, _)
HistoryLines(pname, history, i) ==
    IF i > Len(history) THEN <<>>
    ELSE <<HistoryLine(pname, history[i])>> \o HistoryLines(pname, history, i + 1)

\* a mutant of uci_save_lines: lines are written at the head of the file
uci_save_lines_head(p, file) ==
    HistoryLines(p.name, p.history, 1) \o file

\* the save file after uci_save's loop (opened at SEEK_END)
uci_save_lines(p, file) ==
    file \o HistoryLines(p.name, p.history, 1)

\* uci_save of a package with has_history
uci_save(p, file) ==
    IF p.history = <<>> THEN [err |-> UCI_OK, p |-> p, file |-> file]
    ELSE [err |-> UCI_OK, p |-> [p EXCEPT !.history = <<>>],
          file |-> uci_save_lines(p, file)]

-----------------------------------------------------------------------------
(* Import and export of the canonical file: file.c *)

UCI_FLAG_STRICT == "UCI_FLAG_STRICT"
UCI_FLAG_PERROR == "UCI_FLAG_PERROR"
UCI_FLAG_EXPORT_NAME == "UCI_FLAG_EXPORT_NAME"
UCI_FLAG_SAVED_HISTORY == "UCI_FLAG_SAVED_HISTORY"

\* ctx->flags as uci_alloc_context sets them
ContextFlags == {UCI_FLAG_STRICT, UCI_FLAG_SAVED_HISTORY}

RECURSIVE ExportItems(_, _, _)
ExportItems(name, items, i) ==
    IF i > Len(items) THEN <<>>
    ELSE <<<<"list", name, items[i]>>>> \o ExportItems(name, items, i + 1)

RECURSIVE ExportOptions(_, _)
ExportOptions(options, i) ==
    IF i > Len(options) THEN <<>>
    ELSE (IF options[i].type = "string"
          THEN <<<<"option", options[i].name, options[i].string>>>>
          ELSE ExportItems(options[i].name, options[i].list, 1))
         \o ExportOptions(options, i + 1)

\* a mutant of ExportSection: the name of every section is written
ExportSectionNamed(s) ==
    <<<<"config", s.type, s.name>>>> \o ExportOptions(s.options, 1)

\* the lines uci_export_package writes for one section
ExportSection(s) ==
    <<IF ~s.anonymous \/ UCI_FLAG_EXPORT_NAME \in ContextFlags
      THEN <<"config", s.type, s.name>>
      ELSE <<"config", s.type>>>>
    \o ExportOptions(s.options, 1)

RECURSIVE ExportSections(_, _)
ExportSections(sections, i) ==
    IF i > Len(sections) THEN <<>>
    ELSE ExportSection(sections[i]) \o ExportSections(sections, i + 1)

uci_export_package(p) == ExportSections(p.sections, 1)

\* the context during an import: ctx->root, ctx->flags and what is printed
\* on stderr; the package being built (NoPkg when pctx->package is NULL),
\* the index of pctx->section in it (0 for NULL), pctx->name, pctx->line and
\* pctx->reason
ParseContext(root, package, section, name, flags) ==
    [root |-> root, package |-> package, section |-> section, name |-> name,
     flags |-> flags, line |-> 0, reason |-> Null, stderr |-> <<>>]

ParseResult(err, pctx) == [err |-> err, pctx |-> pctx]

\* a mutant of uci_parse_error: the section being built is dropped
uci_parse_error_drop(pctx, reason) ==
    [err |-> UCI_ERR_PARSE,
     pctx |-> [pctx EXCEPT !.reason = reason,
                           !.package = IF pctx.section = 0 THEN @
                                       ELSE uci_free_section(@, pctx.section),
                           !.section = 0]]

\* uci_parse_error: the reason is kept in the parse context
uci_parse_error(pctx, reason) ==
    ParseResult(UCI_ERR_PARSE, [pctx EXCEPT !.reason = reason])

\* an argument the tokenizer could not finish, with the reason it gave
LexError(reason) == <<"!", reason>>

IsLexError(arg) == Len(arg) = 2 /\ arg[1] = "!"

\* next_arg on argument k of a line: the reason of the parse error it
\* raises, or Null
next_arg(line, k, required, name) ==
    IF k > Len(line)
    THEN (IF required THEN <<"insufficient arguments">> ELSE Null)
    ELSE IF IsLexError(line[k]) THEN <<line[k][2]>>
    ELSE IF line[k] = <<>>
    THEN (IF required THEN <<"insufficient arguments">> ELSE Null)
    ELSE IF name /\ ~uci_validate_name(line[k])
    THEN <<"invalid character in field">>
    ELSE Null

\* assert_eol after argument k - 1
assert_eol(line, k, flags) ==
    IF k > Len(line) THEN Null
    ELSE IF IsLexError(line[k]) THEN <<line[k][2]>>
    ELSE IF line[k] # <<>> /\ UCI_FLAG_STRICT \in flags
    THEN <<"too many arguments">>
    ELSE Null

\* a mutant of uci_switch_config: a name the root holds already is accepted
uci_switch_config_nodup(pctx) ==
    LET Added(root1) ==
            IF pctx.name = Null
            THEN ParseResult(UCI_OK, [pctx EXCEPT !.root = root1, !.package = NoPkg,
                                                  !.section = 0])
            ELSE ParseResult(UCI_OK, [pctx EXCEPT !.root = root1,
                                                  !.package = uci_alloc_package(pctx.name),
                                                  !.section = 0])
    IN  Added(IF pctx.package.name # Null THEN Append(pctx.root, pctx.package)
              ELSE pctx.root)

uci_switch_config(pctx) ==
    LET Added(root1) ==
            IF pctx.name = Null
            THEN ParseResult(UCI_OK, [pctx EXCEPT !.root = root1, !.package = NoPkg,
                                                  !.section = 0])
            ELSE IF uci_lookup_list(root1, pctx.name) # 0
            THEN ParseResult(UCI_ERR_DUPLICATE,
                             [pctx EXCEPT !.root = root1, !.package = NoPkg, !.section = 0])
            ELSE ParseResult(UCI_OK, [pctx EXCEPT !.root = root1,
                                                  !.package = uci_alloc_package(pctx.name),
                                                  !.section = 0])
    IN  Added(IF pctx.package.name # Null THEN Append(pctx.root, pctx.package)
              ELSE pctx.root)

uci_parse_package(pctx, line, single) ==
    IF next_arg(line, 2, TRUE, TRUE) # Null
    THEN uci_parse_error(pctx, next_arg(line, 2, TRUE, TRUE)[1])
    ELSE IF assert_eol(line, 3, pctx.flags) # Null
    THEN uci_parse_error(pctx, assert_eol(line, 3, pctx.flags)[1])
    ELSE IF single THEN ParseResult(UCI_OK, pctx)
    ELSE uci_switch_config([pctx EXCEPT !.name = line[2]])

\* uci_parse_config: next_arg hands back an empty string, never NULL, for
\* a name that is not there, so every section goes through uci_set
uci_parse_config(pctx, line) ==
    LET Set(r, c, name) ==
            ParseResult(r.err,
                [c EXCEPT !.package = r.p,
                          !.section = IF r.err # UCI_OK THEN c.section
                                      ELSE IF name = <<>> THEN Len(r.p.sections)
                                      ELSE uci_lookup_list(r.p.sections, name)])
        Named(s, name) ==
            Set(uci_set_section(s.pctx.package, name, line[2], TRUE), s.pctx, name)
        Switched(s) ==
            IF s.err # UCI_OK THEN s
            ELSE IF next_arg(line, 2, TRUE, FALSE) # Null
            THEN uci_parse_error(s.pctx, next_arg(line, 2, TRUE, FALSE)[1])
            ELSE IF ~uci_validate_type(line[2])
            THEN uci_parse_error(s.pctx, "invalid character in field")
            ELSE IF next_arg(line, 3, FALSE, TRUE) # Null
            THEN uci_parse_error(s.pctx, next_arg(line, 3, FALSE, TRUE)[1])
            ELSE IF assert_eol(line, 4, s.pctx.flags) # Null
            THEN uci_parse_error(s.pctx, assert_eol(line, 4, s.pctx.flags)[1])
            ELSE Named(s, IF Len(line) >= 3 THEN line[3] ELSE <<>>)
    IN  IF pctx.package.name # Null
        THEN Switched(ParseResult(UCI_OK,
                [pctx EXCEPT !.package = uci_fixup_section(pctx.package, pctx.section)]))
        ELSE IF pctx.name = Null
        THEN uci_parse_error(pctx, "attempting to import a file without a package name")
        ELSE Switched(uci_switch_config(pctx))

\* uci_parse_option on the current section
uci_parse_option(pctx, line, list) ==
    LET Done(r) == ParseResult(r.err, [pctx EXCEPT !.package = r.p])
    IN  IF pctx.section = 0
        THEN uci_parse_error(pctx, "option/list command found before the first section")
        ELSE IF next_arg(line, 2, TRUE, TRUE) # Null
        THEN uci_parse_error(pctx, next_arg(line, 2, TRUE, TRUE)[1])
        ELSE IF next_arg(line, 3, FALSE, FALSE) # Null
        THEN uci_parse_error(pctx, next_arg(line, 3, FALSE, FALSE)[1])
        ELSE IF assert_eol(line, 4, pctx.flags) # Null
        THEN uci_parse_error(pctx, assert_eol(line, 4, pctx.flags)[1])
        ELSE IF list
             THEN Done(uci_add_list_in(pctx.package, pctx.section, line[2],
                                       IF Len(line) >= 3 THEN line[3] ELSE <<>>, TRUE))
             ELSE Done(uci_set_in(pctx.package, pctx.section, line[2],
                                  IF Len(line) >= 3 THEN line[3] ELSE <<>>, TRUE))

uci_parse_line(pctx, line, single) ==
    IF line[1] = "package" THEN uci_parse_package(pctx, line, single)
    ELSE IF line[1] = "config" THEN uci_parse_config(pctx, line)
    ELSE IF line[1] = "option" THEN uci_parse_option(pctx, line, FALSE)
    ELSE IF line[1] = "list" THEN uci_parse_option(pctx, line, TRUE)
    ELSE uci_parse_error(pctx, "invalid command")


\* uci_perror(ctx, NULL) on a failed line, when UCI_FLAG_PERROR is set
uci_perror(pctx, err) ==
    IF UCI_FLAG_PERROR \in pctx.flags
    THEN [pctx EXCEPT !.stderr =
            Append(@, [err |-> err,
                       reason |-> IF err = UCI_ERR_PARSE THEN pctx.reason ELSE Null,
                       line |-> IF err = UCI_ERR_PARSE THEN pctx.line ELSE 0])]
    ELSE pctx

RECURSIVE ImportLines(_, _, _, _)
\* the loop of uci_import over lines[i..]: uci_getln outside the trap, then
\* uci_parse_line inside it
ImportLines(pctx, lines, i, single) ==
    LET Parsed(r) ==
            IF r.err = UCI_OK THEN ImportLines(r.pctx, lines, i + 1, single)
            ELSE IF r.err # UCI_ERR_PARSE \/ UCI_FLAG_STRICT \in r.pctx.flags
            THEN ParseResult(r.err, uci_perror(r.pctx, r.err))
            ELSE ImportLines(uci_perror(r.pctx, r.err), lines, i + 1, single)
    IN  IF i > Len(lines) THEN ParseResult(UCI_OK, pctx)
        ELSE IF lines[i] = LineTooLong
        THEN uci_parse_error([pctx EXCEPT !.line = i - 1], "line too long")
        ELSE IF lines[i] = <<>>
        THEN ImportLines([pctx EXCEPT !.line = i], lines, i + 1, single)
        ELSE Parsed(uci_parse_line([pctx EXCEPT !.line = i], lines[i], single))

\* what uci_import leaves: the error, the root, the package it hands back
\* and what it printed on stderr
ImportResult(err, root, p, stderr) ==
    [err |-> err, root |-> root, p |-> p, stderr |-> stderr]

\* uci_import(ctx, stream, name, &package, single) with *package == NULL
uci_import(root, lines, name, single, flags) ==
    LET Attached(s, p) == ImportResult(s.err, s.pctx.root, p, s.pctx.stderr)
        Named(s) ==
            IF s.err # UCI_OK THEN ImportResult(s.err, s.pctx.root, NoPkg, s.pctx.stderr)
            ELSE Attached(uci_switch_config([s.pctx EXCEPT !.name = Null]), s.pctx.package)
        Fixed(c) ==
            IF c.package.name = Null /\ name # Null THEN Named(uci_switch_config(c))
            ELSE Named(ParseResult(UCI_OK, c))
        Imported(r) ==
            IF r.err # UCI_OK THEN ImportResult(r.err, r.pctx.root, NoPkg, r.pctx.stderr)
            ELSE Fixed([r.pctx EXCEPT !.package =
                            IF r.pctx.package.name # Null
                            THEN uci_fixup_section(r.pctx.package, r.pctx.section)
                            ELSE r.pctx.package])
    IN  IF name # Null /\ ~uci_validate_package(name)
        THEN ImportResult(UCI_ERR_INVAL, root, NoPkg, <<>>)
        ELSE Imported(ImportLines(ParseContext(root, NoPkg, 0, name, flags),
                                  lines, 1, single))

\* uci_file_load of a bare name: the error, the root and the package loaded,
\* which is the last one of the root
uci_file_load(root, lines, file, name) ==
    LET Replayed(r, p) ==
            ImportResult(UCI_OK, [r.root EXCEPT ![Len(r.root)] = p], p, r.stderr)
        Imported(r) ==
            IF r.err # UCI_OK THEN r
            ELSE IF r.p.name = Null THEN r
            ELSE Replayed(r, uci_load_history([r.p EXCEPT !.has_history = TRUE],
                                              file, FALSE).p)
    IN  Imported(uci_import(root, lines, name, TRUE, ContextFlags))

CommitResult(err, p, lines, file) ==
    [err |-> err, p |-> p, lines |-> lines, file |-> file]

\* a mutant of uci_file_commit: the file is exported whatever the replay did
uci_file_commit_always(p, lines, file, overwrite) ==
    LET Flushed(h) == CommitResult(UCI_OK, h.p, uci_export_package(h.p), h.file)
        Reloaded(r, file1) ==
            IF r.err # UCI_OK THEN CommitResult(r.err, NoPkg, lines, file1)
            ELSE Flushed(uci_load_history([r.p EXCEPT !.has_history = TRUE], file1, TRUE))
    IN  IF ~p.has_history THEN CommitResult(UCI_OK, p, uci_export_package(p), file)
        ELSE IF overwrite THEN Reloaded(Ok(p), file)
        ELSE Reloaded(uci_import(<<>>, lines, p.name, TRUE, ContextFlags),
                      uci_save(p, file).file)

\* uci_file_commit: the error, the package left in the root (NoPkg when it
\* was freed and not replaced), the canonical file and the save file
uci_file_commit(p, lines, file, overwrite) ==
    LET Flushed(h) ==
            IF uci_load_history_changes(h) = 0
            THEN CommitResult(UCI_OK, h.p, lines, h.file)
            ELSE CommitResult(UCI_OK, h.p, uci_export_package(h.p), h.file)
        Reloaded(r, file1) ==
            IF r.err # UCI_OK THEN CommitResult(r.err, NoPkg, lines, file1)
            ELSE Flushed(uci_load_history([r.p EXCEPT !.has_history = TRUE], file1, TRUE))
    IN  IF ~p.has_history THEN CommitResult(UCI_OK, p, uci_export_package(p), file)
        ELSE IF overwrite THEN Reloaded(Ok(p), file)
        ELSE Reloaded(uci_import(<<>>, lines, p.name, TRUE, ContextFlags),
                      uci_save(p, file).file)

-----------------------------------------------------------------------------
(* The delta engine of one context on package n, with the save file as     *)
(* other contexts may have left it                                         *)

n == <<"n">>
a == <<"a">>
b == <<"b">>
t == <<"t">>
u == <<"u">>
x == <<"x">>
y == <<"y">>
v1 == <<"1">>
v2 == <<"2">>
v12 == <<"1", ".", "2">>

Sections == {a, b}
Options == {x, y}
Types == {t, u}
Values == {v1, v12}

\* canonical files the behaviours start from: a named section and an
\* anonymous one
CanonFiles ==
    { << <<"config", t, a>>, <<"option", x, v1>> >>,
      << <<"config", t>>, <<"option", x, v1>> >> }

\* save files another context's uci_save may have left behind
SaveFiles ==
    { <<>>,
      << <<"-">> \o n \o Dot \o a,
         n \o Dot \o a \o <<"=">> \o t,
         n \o Dot \o a \o Dot \o x \o <<"=">> \o v2 >> }

\* the processes that share confdir and savedir
Procs == {"A", "B"}

\* a context right after uci_alloc_context: no package, no call in progress
IdleContext ==
    [pkg |-> NoPkg, pc |-> "idle", err |-> UCI_OK, overwrite |-> FALSE,
     before |-> <<>>]

Loaded == pkg.name # Null

\* the names of the sections of a package
SectionNames(p) == {p.sections[i].name : i \in 1..Len(p.sections)}

Call(op, err, section, option, value) ==
    [op |-> op, err |-> err, section |-> section, option |-> option, value |-> value]

Init ==
    /\ canon \in CanonFiles
    /\ savef \in SaveFiles
    /\ pkg = NoPkg
    /\ last = Call("none", UCI_OK, Null, Null, Null)
    /\ fresh = FALSE
    /\ nops = 0
    /\ ctx = [p \in Procs |-> IdleContext]
    /\ lock = [p \in Procs |-> "none"]
    /\ calls = <<>>
    /\ faults = 0
    /\ ctxroot = <<>>

\* the frame of a mutation of the tree; the arguments of a call are kept
\* when it succeeded
Mutated(op, r, section, option, value) ==
    /\ pkg' = r.p
    /\ last' = IF r.err = UCI_OK THEN Call(op, UCI_OK, section, option, value)
               ELSE Call(op, r.err, Null, Null, Null)
    /\ nops' = nops + 1
    /\ UNCHANGED <<canon, savef, fresh, procvars, ctxroot>>

\* uci_load of n when it is not in the root
Load ==
    LET Done(r) ==
            /\ pkg' = IF r.err = UCI_OK THEN r.p ELSE NoPkg
            /\ last' = Call("load", r.err, Null, Null, Null)
            /\ fresh' = (r.err = UCI_OK /\ savef = <<>>)
    IN  /\ nops < MaxOps
        /\ ~Loaded
        /\ Done(uci_file_load(<<>>, canon, savef, n))
        /\ nops' = nops + 1
        /\ UNCHANGED <<canon, savef, procvars, ctxroot>>

Unload ==
    /\ nops < MaxOps
    /\ Loaded
    /\ pkg' = NoPkg
    /\ last' = Call("unload", UCI_OK, Null, Null, Null)
    /\ fresh' = FALSE
    /\ nops' = nops + 1
    /\ UNCHANGED <<canon, savef, procvars, ctxroot>>

Set ==
    /\ nops < MaxOps
    /\ Loaded
    /\ \E section \in Sections \cup SectionNames(pkg) :
          \/ \E value \in Types :
                Mutated("set", uci_set(pkg, section, Null, value, FALSE),
                        section, Null, value)
          \/ \E option \in Options, value \in Values :
                Mutated("set", uci_set(pkg, section, option, value, FALSE),
                        section, option, value)

Delete ==
    /\ nops < MaxOps
    /\ Loaded
    /\ \E section \in Sections \cup SectionNames(pkg), option \in Options \cup {Null} :
          Mutated("delete", uci_delete(pkg, section, option, FALSE), section, option, Null)

Rename ==
    /\ nops < MaxOps
    /\ Loaded
    /\ \/ \E section \in Sections \cup SectionNames(pkg), name \in Sections :
             Mutated("rename", uci_rename(pkg, section, Null, name, FALSE),
                     section, Null, name)
       \/ \E section \in Sections, option \in Options, name \in Options :
             Mutated("rename", uci_rename(pkg, section, option, name, FALSE),
                     section, option, name)

AddList ==
    /\ nops < MaxOps
    /\ Loaded
    /\ \E section \in Sections, option \in Options, value \in Values :
          Mutated("add_list", uci_add_list(pkg, section, option, value, FALSE),
                  section, option, value)

AddSection ==
    LET Done(r, type) ==
            Mutated("add_section", r, r.p.sections[Len(r.p.sections)].name, Null, type)
    IN  /\ nops < MaxOps
        /\ Loaded
        /\ \E type \in Types : Done(uci_add_section(pkg, type, FALSE), type)

Save ==
    LET Done(r) ==
            /\ pkg' = r.p
            /\ savef' = r.file
            /\ last' = Call("save", r.err, Null, Null, Null)
    IN  /\ nops < MaxOps
        /\ Loaded
        /\ Done(uci_save(pkg, savef))
        /\ nops' = nops + 1
        /\ UNCHANGED <<canon, fresh, procvars, ctxroot>>

Commit ==
    LET Done(r, overwrite) ==
            /\ pkg' = r.p
            /\ canon' = r.lines
            /\ savef' = r.file
            /\ last' = Call("commit", r.err, Null, Null,
                            IF overwrite THEN <<"1">> ELSE <<"0">>)
    IN  /\ nops < MaxOps
        /\ Loaded
        /\ \E overwrite \in BOOLEAN :
              Done(uci_file_commit(pkg, canon, savef, overwrite), overwrite)
        /\ fresh' = FALSE
        /\ nops' = nops + 1
        /\ UNCHANGED <<procvars, ctxroot>>

Next ==
    \/ Load
    \/ Unload
    \/ Set
    \/ Delete
    \/ Rename
    \/ AddList
    \/ AddSection
    \/ Save
    \/ Commit

Spec == Init /\ [][Next]_vars

-----------------------------------------------------------------------------
(* Two processes on package n: each has a context of its own, both share    *)
(* the canonical file, the save file and the flock on the canonical file.  *)
(* A commit is followed step by step through uci_file_commit.              *)

\* the option each process sets in section a
OptionOf(p) == IF p = "A" THEN x ELSE y

\* a mutant of flock: the call fails with ENOSYS, which uci_open_stream accepts
flock_nosys(lk, p, write) == TRUE

\* flock(fd, write ? LOCK_EX : LOCK_SH) can be granted to p
flock(lk, p, write) ==
    \A q \in Procs \ {p} : lk[q] = "none" \/ (~write /\ lk[q] = "sh")

\* the log of the calls that have returned, with one more
Returned(p, op, err, value) ==
    Append(calls, [proc |-> p, op |-> op, err |-> err, value |-> value])

\* strict prefixes of a file
Prefixes(lines) == {SubSeq(lines, 1, k) : k \in 0..(Len(lines) - 1)}

ProcInit ==
    /\ canon = << <<"config", t, a>> >>
    /\ savef = <<>>
    /\ pkg = NoPkg
    /\ last = Call("none", UCI_OK, Null, Null, Null)
    /\ fresh = FALSE
    /\ nops = 0
    /\ ctx = [p \in Procs |-> IdleContext]
    /\ lock = [p \in Procs |-> "none"]
    /\ calls = <<>>
    /\ faults = 0
    /\ ctxroot = <<>>

\* the calls of process p that have returned
CallsOf(p) == {i \in 1..Len(calls) : calls[i].proc = p}

SetsOf(p) == {i \in CallsOf(p) : calls[i].op = "set"}

CommitsOf(p) == {i \in CallsOf(p) : calls[i].op = "commit"}

Idle(p) == ctx[p].pc = "idle" /\ Cardinality(CallsOf(p)) < MaxProcOps

\* uci_file_load has opened the canonical file and holds LOCK_SH
PLoadOpen(p) ==
    /\ Idle(p)
    /\ ctx[p].pkg.name = Null
    /\ flock(lock, p, FALSE)
    /\ lock' = [lock EXCEPT ![p] = "sh"]
    /\ ctx' = [ctx EXCEPT ![p].pc = "load"]
    /\ UNCHANGED <<canon, savef, onevars, calls, faults, ctxroot>>

\* uci_import, uci_load_history and uci_close_stream of uci_file_load
PLoadDone(p) ==
    LET Done(r) ==
            /\ ctx' = [ctx EXCEPT ![p].pkg = IF r.err = UCI_OK THEN r.p ELSE NoPkg,
                                  ![p].pc = "idle"]
            /\ calls' = Returned(p, "load", r.err, Null)
    IN  /\ ctx[p].pc = "load"
        /\ Done(uci_file_load(<<>>, canon, savef, n))
        /\ lock' = [lock EXCEPT ![p] = "none"]
        /\ UNCHANGED <<canon, savef, onevars, faults, ctxroot>>

PSet(p) ==
    LET Done(r, value) ==
            /\ ctx' = [ctx EXCEPT ![p].pkg = r.p]
            /\ calls' = Returned(p, "set", r.err, value)
    IN  /\ Idle(p)
        /\ ctx[p].pkg.name # Null
        /\ Cardinality(SetsOf(p)) < MaxSets
        /\ \E value \in Values :
              Done(uci_set(ctx[p].pkg, a, OptionOf(p), value, FALSE), value)
        /\ UNCHANGED <<canon, savef, onevars, lock, faults, ctxroot>>

\* uci_save with pending deltas (without any it returns 0 at once)
PSave(p) ==
    LET Done(r) ==
            /\ ctx' = [ctx EXCEPT ![p].pkg = r.p]
            /\ calls' = Returned(p, "save", r.err, Null)
            /\ savef' = r.file
    IN  /\ Idle(p)
        /\ ctx[p].pkg.name # Null
        /\ ctx[p].pkg.history # <<>>
        /\ Done(uci_save(ctx[p].pkg, savef))
        /\ UNCHANGED <<canon, onevars, lock, faults, ctxroot>>

\* uci_open_stream of uci_file_commit: the file is open and locked LOCK_EX
PCommitOpen(p) ==
    /\ Idle(p)
    /\ ctx[p].pkg.name # Null
    /\ Cardinality(CommitsOf(p)) < MaxCommits
    /\ flock(lock, p, TRUE)
    /\ lock' = [lock EXCEPT ![p] = "ex"]
    /\ \E overwrite \in BOOLEAN :
          ctx' = [ctx EXCEPT ![p].pc = "flush", ![p].err = UCI_OK,
                             ![p].overwrite = overwrite, ![p].before = canon]
    /\ UNCHANGED <<canon, savef, onevars, calls, faults, ctxroot>>

\* uci_open_stream of uci_file_commit throws UCI_ERR_IO: open fails
PCommitOpenFails(p) ==
    /\ Idle(p)
    /\ ctx[p].pkg.name # Null
    /\ Cardinality(CommitsOf(p)) < MaxCommits
    /\ faults < MaxFaults
    /\ faults' = faults + 1
    /\ ctx' = [ctx EXCEPT ![p].err = UCI_ERR_IO, ![p].before = canon]
    /\ calls' = Returned(p, "commit", UCI_ERR_IO, Null)
    /\ UNCHANGED <<canon, savef, onevars, lock, ctxroot>>

\* "dump our own changes to the history file"
PCommitFlush(p) ==
    LET Saved(s) ==
            /\ savef' = s.file
            /\ ctx' = [ctx EXCEPT ![p].pkg = s.p, ![p].pc = "reimport"]
    IN  /\ ctx[p].pc = "flush"
        /\ IF ~ctx[p].pkg.has_history
           THEN /\ ctx' = [ctx EXCEPT ![p].pc = "truncate"]
                /\ UNCHANGED savef
           ELSE IF ctx[p].overwrite
           THEN /\ ctx' = [ctx EXCEPT ![p].pc = "replay"]
                /\ UNCHANGED savef
           ELSE Saved(uci_save(ctx[p].pkg, savef))
        /\ UNCHANGED <<canon, onevars, lock, calls, faults, ctxroot>>

\* uci_save of the pending deltas throws: the save file cannot be opened
PCommitFlushFails(p) ==
    /\ ctx[p].pc = "flush"
    /\ ctx[p].pkg.has_history
    /\ ~ctx[p].overwrite
    /\ ctx[p].pkg.history # <<>>
    /\ faults < MaxFaults
    /\ faults' = faults + 1
    /\ ctx' = [ctx EXCEPT ![p].pc = "done", ![p].err = UCI_ERR_IO]
    /\ UNCHANGED <<canon, savef, onevars, lock, calls, ctxroot>>

\* uci_free_package and uci_import of the canonical file under the lock
PCommitReimport(p) ==
    LET Done(r) ==
            ctx' = [ctx EXCEPT
                       ![p].pkg = IF r.err = UCI_OK
                                  THEN [r.p EXCEPT !.has_history = TRUE] ELSE NoPkg,
                       ![p].pc = IF r.err = UCI_OK THEN "replay" ELSE "done",
                       ![p].err = r.err]
    IN  /\ ctx[p].pc = "reimport"
        /\ Done(uci_import(<<>>, canon, ctx[p].pkg.name, TRUE, ContextFlags))
        /\ UNCHANGED <<canon, savef, onevars, lock, calls, faults, ctxroot>>

\* uci_import throws UCI_ERR_MEM after the package was freed
PCommitReimportFails(p) ==
    /\ ctx[p].pc = "reimport"
    /\ faults < MaxFaults
    /\ faults' = faults + 1
    /\ ctx' = [ctx EXCEPT ![p].pkg = NoPkg, ![p].pc = "done", ![p].err = UCI_ERR_MEM]
    /\ UNCHANGED <<canon, savef, onevars, lock, calls, ctxroot>>

\* "flush history": uci_load_history(ctx, p, true)
PCommitReplay(p) ==
    LET Done(h) ==
            /\ savef' = h.file
            /\ ctx' = [ctx EXCEPT ![p].pkg = h.p,
                                  ![p].pc = IF uci_load_history_changes(h) = 0
                                            THEN "done" ELSE "truncate"]
    IN  /\ ctx[p].pc = "replay"
        /\ Done(uci_load_history(ctx[p].pkg, savef, TRUE))
        /\ UNCHANGED <<canon, onevars, lock, calls, faults, ctxroot>>

\* uci_load_history throws UCI_ERR_MEM: asprintf of the file name fails
PCommitReplayFails(p) ==
    /\ ctx[p].pc = "replay"
    /\ faults < MaxFaults
    /\ faults' = faults + 1
    /\ ctx' = [ctx EXCEPT ![p].pc = "done", ![p].err = UCI_ERR_MEM]
    /\ UNCHANGED <<canon, savef, onevars, lock, calls, ctxroot>>

\* rewind(f); ftruncate(fileno(f), 0)
PCommitTruncate(p) ==
    /\ ctx[p].pc = "truncate"
    /\ canon' = <<>>
    /\ ctx' = [ctx EXCEPT ![p].pc = "export"]
    /\ UNCHANGED <<savef, onevars, lock, calls, faults, ctxroot>>

\* ftruncate fails: UCI_THROW(ctx, UCI_ERR_IO)
PCommitTruncateFails(p) ==
    /\ ctx[p].pc = "truncate"
    /\ faults < MaxFaults
    /\ faults' = faults + 1
    /\ ctx' = [ctx EXCEPT ![p].pc = "done", ![p].err = UCI_ERR_IO]
    /\ UNCHANGED <<canon, savef, onevars, lock, calls, ctxroot>>

\* uci_export(ctx, f, p, false)
PCommitExport(p) ==
    /\ ctx[p].pc = "export"
    /\ canon' = uci_export_package(ctx[p].pkg)
    /\ ctx' = [ctx EXCEPT ![p].pc = "done"]
    /\ UNCHANGED <<savef, onevars, lock, calls, faults, ctxroot>>

\* uci_export throws UCI_ERR_MEM: uci_realloc of uci_escape fails after some
\* of the lines were written
PCommitExportFails(p) ==
    /\ ctx[p].pc = "export"
    /\ faults < MaxFaults
    /\ faults' = faults + 1
    /\ canon' \in Prefixes(uci_export_package(ctx[p].pkg))
    /\ ctx' = [ctx EXCEPT ![p].pc = "done", ![p].err = UCI_ERR_MEM]
    /\ UNCHANGED <<savef, onevars, lock, calls, ctxroot>>

\* done: uci_close_stream(f) and the return of uci_commit
PCommitClose(p) ==
    /\ ctx[p].pc = "done"
    /\ lock' = [lock EXCEPT ![p] = "none"]
    /\ calls' = Returned(p, "commit", ctx[p].err,
                          IF ctx[p].overwrite THEN <<"1">> ELSE <<"0">>)
    /\ ctx' = [ctx EXCEPT ![p].pc = "idle"]
    /\ UNCHANGED <<canon, savef, onevars, faults, ctxroot>>

ProcNext ==
    \/ \E p \in Procs : PLoadOpen(p)
    \/ \E p \in Procs : PLoadDone(p)
    \/ \E p \in Procs : PSet(p)
    \/ \E p \in Procs : PSave(p)
    \/ \E p \in Procs : PCommitOpen(p)
    \/ \E p \in Procs : PCommitOpenFails(p)
    \/ \E p \in Procs : PCommitFlush(p)
    \/ \E p \in Procs : PCommitFlushFails(p)
    \/ \E p \in Procs : PCommitReimport(p)
    \/ \E p \in Procs : PCommitReimportFails(p)
    \/ \E p \in Procs : PCommitReplay(p)
    \/ \E p \in Procs : PCommitReplayFails(p)
    \/ \E p \in Procs : PCommitTruncate(p)
    \/ \E p \in Procs : PCommitTruncateFails(p)
    \/ \E p \in Procs : PCommitExport(p)
    \/ \E p \in Procs : PCommitExportFails(p)
    \/ \E p \in Procs : PCommitClose(p)

SpecProc == ProcInit /\ [][ProcNext]_vars

-----------------------------------------------------------------------------
(* Properties of the delta engine *)

\* names are pairwise distinct in a list of elements
NamesDistinct(list) ==
    \A i, j \in 1..Len(list) : list[i].name = list[j].name => i = j

\* C1: after any sequence of public mutations of a package loaded by name,
\* save followed by a fresh load (canonical file, then replay of the save
\* file) yields a package whose export equals the export of the package as
\* it stands in memory.
C1_SaveThenReloadEqualsMemory ==
    (fresh /\ last.op = "save" /\ last.err = UCI_OK) =>
        uci_export_package(uci_file_load(<<>>, canon, savef, n).p) = uci_export_package(pkg)

\* C5: after any sequence of import, set, add_section, add_list, rename and
\* delete, names are pairwise distinct among the sections of the package and
\* among the options of each section.
C5_SiblingNamesDistinct ==
    Loaded =>
        /\ NamesDistinct(pkg.sections)
        /\ \A i \in 1..Len(pkg.sections) : NamesDistinct(pkg.sections[i].options)

C7_LoadLeavesHistoryEmpty ==
    (last.op = "load" /\ last.err = UCI_OK) => pkg.history = <<>>

\* C8: a second commit right after a commit, with no mutation and no other
\* writer in between, leaves the canonical file as the first commit left it.
C8_CommitTwiceSameFile ==
    [][(last.op = "commit" /\ last.err = UCI_OK /\ last'.op = "commit"
        /\ last'.value = last.value) => canon' = canon]_vars

\* C10: a section is anonymous exactly when no name was ever supplied for
\* it: after a successful rename of a section, the section that carries the
\* new name is not anonymous.
C10_RenamedSectionNotAnonymous ==
    (last.op = "rename" /\ last.err = UCI_OK /\ last.option = Null) =>
        \A i \in 1..Len(pkg.sections) :
            pkg.sections[i].name = last.value => ~pkg.sections[i].anonymous


-----------------------------------------------------------------------------
(* Properties of two processes on one package *)

\* the process is inside uci_file_commit, between uci_open_stream and
\* uci_close_stream
InCommit(p) ==
    ctx[p].pc \in {"flush", "reimport", "replay", "truncate", "export", "done"}

\* the process is inside uci_file_load, between uci_open_stream and
\* uci_close_stream
InLoad(p) == ctx[p].pc = "load"

\* the canonical file gives option the value in section a
HasOption(lines, option, value) ==
    \E i \in 1..Len(lines) :
        /\ lines[i] = <<"option", option, value>>
        /\ \E j \in 1..(i - 1) :
              /\ lines[j] = <<"config", t, a>>
              /\ \A k \in (j + 1)..(i - 1) : lines[k][1] # "config"

Returns(p, op, value) == [proc |-> p, op |-> op, err |-> UCI_OK, value |-> value]

\* A loads, sets x and saves; B loads, sets y, saves and commits; A commits
TwoEditors(va, vb) ==
    << Returns("A", "load", Null), Returns("A", "set", va), Returns("A", "save", Null),
       Returns("B", "load", Null), Returns("B", "set", vb), Returns("B", "save", Null),
       Returns("B", "commit", <<"0">>), Returns("A", "commit", <<"0">>) >>

\* C2: when A has loaded, set option x and saved, B has then loaded, set
\* option y, saved and committed, and A has then committed, the canonical
\* file holds both the value A set for x and the value B set for y.
C2_BothEditsInCanonicalFile ==
    \A va, vb \in Values :
        calls = TwoEditors(va, vb)
            => HasOption(canon, x, va) /\ HasOption(canon, y, vb)

C4_FailedCommitLeavesCanonicalFile ==
    [][\A p \in Procs :
          (ctx[p].err = UCI_OK /\ ctx'[p].err # UCI_OK) => canon' = ctx'[p].before]_vars

-----------------------------------------------------------------------------
(* One context that loads, imports and unloads packages: ctx->root         *)

n2 == <<"n", "2">>

\* the names uci_load is called with
PackageNames == {n, n2}

\* <confdir>/<name>
ConfigFile(name) == IF name = n THEN canon ELSE << <<"config", u>> >>

\* <savedir>/<name>
HistoryFile(name) == IF name = n THEN savef ELSE <<>>

\* the streams uci_import is called with
Streams ==
    { << <<"config", u, b>> >>,
      << <<"package", n>>, <<"config", u, b>> >>,
      << <<"package", n2>>, <<"config", t>>, <<"package", n>>, <<"config", u, b>> >>,
      << <<"package", n2>>, <<"config", t>>, <<"package", n2>>, <<"config", u>> >> }

\* uci_import(ctx, stream, name, NULL, single) as the context was called
ImportCall(op, err, name, lines, single) ==
    [op |-> op, err |-> err, name |-> name, lines |-> lines, single |-> single]

ImportInit ==
    /\ canon = << <<"config", t, a>>, <<"option", x, v1>> >>
    /\ savef = <<>>
    /\ pkg = NoPkg
    /\ last = ImportCall("none", UCI_OK, Null, <<>>, FALSE)
    /\ fresh = FALSE
    /\ nops = 0
    /\ ctx = [p \in Procs |-> IdleContext]
    /\ lock = [p \in Procs |-> "none"]
    /\ calls = <<>>
    /\ faults = 0
    /\ ctxroot = <<>>

\* uci_load(ctx, name, &package)
RootLoad ==
    LET Done(r, name) ==
            /\ ctxroot' = r.root
            /\ last' = ImportCall("load", r.err, name, ConfigFile(name), TRUE)
    IN  /\ nops < MaxOps
        /\ \E name \in PackageNames :
              Done(uci_file_load(ctxroot, ConfigFile(name), HistoryFile(name), name), name)
        /\ nops' = nops + 1
        /\ UNCHANGED <<canon, savef, pkg, fresh, procvars>>

\* uci_import(ctx, stream, name, &package, single) with package = NULL
RootImport ==
    LET Done(r, name, lines, single) ==
            /\ ctxroot' = r.root
            /\ last' = ImportCall("import", r.err, name, lines, single)
    IN  /\ nops < MaxOps
        /\ \E name \in PackageNames \cup {Null}, lines \in Streams, single \in BOOLEAN :
              Done(uci_import(ctxroot, lines, name, single, ContextFlags), name, lines, single)
        /\ nops' = nops + 1
        /\ UNCHANGED <<canon, savef, pkg, fresh, procvars>>

\* uci_unload(ctx, p) on a package of the root
RootUnload ==
    /\ nops < MaxOps
    /\ \E i \in 1..Len(ctxroot) :
          /\ ctxroot' = RemoveAt(ctxroot, i)
          /\ last' = ImportCall("unload", UCI_OK, ctxroot[i].name, <<>>, FALSE)
    /\ nops' = nops + 1
    /\ UNCHANGED <<canon, savef, pkg, fresh, procvars>>

ImportNext == RootLoad \/ RootImport \/ RootUnload

SpecImport == ImportInit /\ [][ImportNext]_vars

-----------------------------------------------------------------------------
(* Properties of the root *)

RootNames(list) == {list[i].name : i \in 1..Len(list)}

PackageLines(lines) == {i \in 1..Len(lines) : lines[i][1] = "package"}

\* the package names a call switches to: the names of the package lines of
\* a stream that is not imported as a single package, and otherwise the name
\* the call was given
SwitchedTo(call) ==
    IF ~call.single /\ PackageLines(call.lines) # {}
    THEN {call.lines[i][2] : i \in PackageLines(call.lines)}
    ELSE {call.name} \ {Null}

\* the stream names one package twice
NamedTwice(call) ==
    /\ ~call.single
    /\ \E i, j \in PackageLines(call.lines) : i # j /\ call.lines[i][2] = call.lines[j][2]

-----------------------------------------------------------------------------
(* Properties of generated section names *)

\* the file whose only section is an anonymous section of type t
OnlyAnonymous == << <<"config", t>>, <<"option", x, v1>> >>

\* cfgCCHHHH for a counter, a type and the options of the section
GeneratedName(counter, type, options) ==
    AnonName(counter, SectionHash(djbhash(HashInit, type), options, 1))

\* C11: after the import of a file whose only section is anonymous, the
\* section is named cfg01HHHH: the counter is 1 and HHHH is the low 16 bits
\* of the hash over the type and the name and value of each option.
C11_OnlyAnonymousSectionName ==
    (last.op = "load" /\ last.err = UCI_OK /\ canon = OnlyAnonymous /\ savef = <<>>)
        => /\ Len(pkg.sections) = 1
           /\ pkg.sections[1].name = GeneratedName(1, t, pkg.sections[1].options)

-----------------------------------------------------------------------------
(* Imports of a stream by one context: the stream is written line by line, *)
(* then imported under one name after another                              *)

MaxLines == 4
MaxImports == 2

\* the logical lines a stream is made of: sections with and without a
\* name, options, list items, an option whose quote is never closed, a
\* package line and a line longer than LINEBUF_MAX
Lines ==
    { <<"config", t>>, <<"config", t, a>>, <<"config", t, b>>,
      <<"option", x, v1>>, <<"option", x, v2>>, <<"option", y, v2>>,
      <<"option", x, LexError("unterminated '")>>,
      <<"list", x, v2>>,
      <<"package", n2>>,
      LineTooLong }

\* the values of ctx->flags: as uci_alloc_context leaves them, with
\* UCI_FLAG_STRICT cleared, and with UCI_FLAG_PERROR set as the cli does
FlagSets ==
    { ContextFlags,
      ContextFlags \ {UCI_FLAG_STRICT},
      (ContextFlags \ {UCI_FLAG_STRICT}) \cup {UCI_FLAG_PERROR} }

\* one call of uci_import and what it gave
Imported(name, single, r) ==
    [op |-> "import", name |-> name, single |-> single, err |-> r.err,
     value |-> r.p, stderr |-> r.stderr]

ParseInit ==
    /\ canon = <<>>
    /\ savef = <<>>
    /\ pkg = NoPkg
    /\ last = ImportCall("none", UCI_OK, Null, <<>>, FALSE)
    /\ fresh = FALSE
    /\ nops = 0
    /\ \E flags \in FlagSets : ctx = [flags |-> flags]
    /\ lock = [p \in Procs |-> "none"]
    /\ calls = <<>>
    /\ faults = 0
    /\ ctxroot = <<>>

\* one more line of the stream, before it is read
StreamLine ==
    /\ calls = <<>>
    /\ Len(canon) < MaxLines
    /\ \E line \in Lines : canon' = Append(canon, line)
    /\ UNCHANGED <<savef, pkg, last, fresh, nops, ctx, lock, calls, faults, ctxroot>>

\* uci_import(ctx, stream, name, &package, single) with package = NULL
StreamImport ==
    LET Done(r, name, single) ==
            /\ ctxroot' = r.root
            /\ calls' = Append(calls, Imported(name, single, r))
    IN  /\ Len(calls) < MaxImports
        /\ \E name \in PackageNames, single \in BOOLEAN :
              Done(uci_import(ctxroot, canon, name, single, ctx.flags), name, single)
        /\ UNCHANGED <<canon, savef, pkg, last, fresh, nops, ctx, lock, faults>>

ParseNext == StreamLine \/ StreamImport

SpecParse == ParseInit /\ [][ParseNext]_vars

-----------------------------------------------------------------------------
(* Properties of imports *)

\* the names of the sections of a package, in order
NamesOfSections(p) == [i \in 1..Len(p.sections) |-> p.sections[i].name]

Succeeded(c) == c.err = UCI_OK /\ c.value.name # Null

Reported(c) == {c.stderr[k].line : k \in DOMAIN c.stderr}

RECURSIVE Without(_, _, _)
\* lines[i..] without the lines whose number is in S
Without(lines, S, i) ==
    IF i > Len(lines) THEN <<>>
    ELSE (IF i \in S THEN <<>> ELSE <<lines[i]>>) \o Without(lines, S, i + 1)

\* the first import of a context that reports its errors and goes on
Lenient(c) ==
    /\ UCI_FLAG_STRICT \notin ctx.flags
    /\ UCI_FLAG_PERROR \in ctx.flags
    /\ calls # <<>>
    /\ c = calls[1]

\* C13: with strict mode off, a parse error discards the line it is on and
\* nothing else: the import does not return UCI_ERR_PARSE, and when it
\* returns success the package is the one the stream gives without the
\* lines that were reported
C13_LenientImportGoesOn ==
    \A c \in {calls[k] : k \in DOMAIN calls \cap {1}} :
        Lenient(c) =>
            /\ c.err # UCI_ERR_PARSE
            /\ c.err = UCI_OK =>
                  c.value = uci_import(<<>>, Without(canon, Reported(c), 1), c.name,
                                       c.single, ctx.flags).p

\* the part of C13 the code keeps: a line that fails inside uci_parse_line
\* is discarded alone
C13_ParseLineErrorsGoOn ==
    \A c \in {calls[k] : k \in DOMAIN calls \cap {1}} :
        (Lenient(c) /\ \A k \in DOMAIN canon : canon[k] # LineTooLong) =>
            /\ c.err # UCI_ERR_PARSE
            /\ c.err = UCI_OK =>
                  c.value = uci_import(<<>>, Without(canon, Reported(c), 1), c.name,
                                       c.single, ctx.flags).p

\* the four lines of the file `bad`: the quote of the value of x is never
\* closed, so parse_single_quote runs into the end of line 2
BadFile ==
    << <<"config", t, a>>,
       <<"option", x, LexError("unterminated '")>>,
       <<"config", t, b>>,
       <<"option", y, v2>> >>

\* the first import, by a context with strict mode off
LenientImport(c) ==
    /\ UCI_FLAG_STRICT \notin ctx.flags
    /\ calls # <<>>
    /\ c = calls[1]

HasSection(p, name) == uci_lookup_list(p.sections, name) # 0

\* option y of section b is the scalar 2
YIsTwo(p) ==
    /\ HasSection(p, b)
    /\ p.sections[uci_lookup_list(p.sections, b)].options = <<StringOption(y, v2)>>

\* what uci_perror prints for the parse error of line 2
Line2Diagnostic ==
    [err |-> UCI_ERR_PARSE, reason |-> "unterminated '", line |-> 2]

ImportReturns(err) ==
    /\ Len(calls') = Len(calls) + 1
    /\ calls'[Len(calls')].err = err

\* C15: with strict mode on, an import that returns UCI_ERR_PARSE leaves
\* the root of the context as it was before the call
C15_StrictParseErrorLeavesRoot ==
    [][(UCI_FLAG_STRICT \in ctx.flags /\ ImportReturns(UCI_ERR_PARSE))
           => ctxroot' = ctxroot]_vars

-----------------------------------------------------------------------------
(* The delta engine when an allocation fails *)

\* uci_set_element_value when uci_realloc or uci_strdup throws: the delta
\* is logged and the element is unlinked by then, and is not put back
uci_set_element_value_nomem(p, si, oi, value, internal) ==
    IF oi = 0
    THEN IF ~uci_validate_str(value, FALSE) THEN Throw(UCI_ERR_INVAL, p)
         ELSE IF value = p.sections[si].type THEN Ok(p)
         ELSE Throw(UCI_ERR_MEM,
                    uci_free_section(
                        LogHistory(p, internal, "UCI_CMD_CHANGE", p.sections[si].name,
                                   Null, value),
                        si))
    ELSE IF value = Null THEN Throw(UCI_ERR_INVAL, p)
    ELSE IF p.sections[si].options[oi].type = "string"
    THEN IF value = p.sections[si].options[oi].string THEN Ok(p)
         ELSE Throw(UCI_ERR_MEM,
                    uci_free_option(
                        LogHistory(p, internal, "UCI_CMD_CHANGE", p.sections[si].name,
                                   p.sections[si].options[oi].name, value),
                        si, oi))
    ELSE \* a list: uci_alloc_option throws before anything is linked
         Throw(UCI_ERR_MEM,
               LogHistory(p, internal, "UCI_CMD_CHANGE", p.sections[si].name,
                          p.sections[si].options[oi].name, value))

\* uci_set when the first allocation it asks for fails
uci_set_nomem(p, section, option, value, internal) ==
    LET NotFound(si) ==
            IF si = 0 /\ option # Null THEN Throw(UCI_ERR_NOTFOUND, p)
            ELSE Throw(UCI_ERR_MEM,
                       LogHistory(p, internal, "UCI_CMD_CHANGE", section, option, value))
        FoundOption(si, oi) ==
            IF oi = 0 THEN NotFound(si)
            ELSE uci_set_element_value_nomem(p, si, oi, value, internal)
        FoundSection(si) ==
            IF si = 0 THEN NotFound(0)
            ELSE IF option = Null
            THEN uci_set_element_value_nomem(p, si, 0, value, internal)
            ELSE FoundOption(si, uci_lookup_list(p.sections[si].options, option))
    IN  IF ~uci_validate_name(section) THEN Throw(UCI_ERR_INVAL, p)
        ELSE IF option # Null /\ ~uci_validate_name(option) THEN Throw(UCI_ERR_INVAL, p)
        ELSE IF option # Null /\ value = Null THEN Throw(UCI_ERR_INVAL, p)
        ELSE IF option = Null /\ ~uci_validate_str(value, FALSE) THEN Throw(UCI_ERR_INVAL, p)
        ELSE FoundSection(uci_lookup_list(p.sections, section))

\* a call of uci_set during which malloc, realloc or strdup returns NULL
SetNoMem ==
    LET Done(r, section, option, value) ==
            /\ pkg' = r.p
            /\ last' = IF r.err = UCI_OK THEN Call("set", UCI_OK, section, option, value)
                       ELSE Call("set", r.err, Null, Null, Null)
    IN  /\ nops < MaxOps
        /\ faults < MaxFaults
        /\ Loaded
        /\ \E section \in Sections \cup SectionNames(pkg) :
              \/ \E value \in Types :
                    Done(uci_set_nomem(pkg, section, Null, value, FALSE),
                         section, Null, value)
              \/ \E option \in Options, value \in Values :
                    Done(uci_set_nomem(pkg, section, option, value, FALSE),
                         section, option, value)
        /\ nops' = nops + 1
        /\ faults' = faults + 1
        /\ UNCHANGED <<canon, savef, fresh, ctx, lock, calls, ctxroot>>

NoMemNext == Next \/ SetNoMem

SpecNoMem == Init /\ [][NoMemNext]_vars

\* C16: a set that returns an error leaves the sections of the package,
\* and their options, as they were
C16_FailedSetLeavesTree ==
    [][(Loaded /\ last'.op = "set" /\ last'.err # UCI_OK /\ nops' = nops + 1)
           => pkg'.sections = pkg.sections]_vars

\* the part of C16 the code keeps: a set refused for its arguments, or for
\* a section that is not there, changes nothing
C16_RefusedSetLeavesTree ==
    [][(Loaded /\ last'.op = "set" /\ last'.err \in {UCI_ERR_INVAL, UCI_ERR_NOTFOUND}
        /\ nops' = nops + 1)
           => pkg' = pkg]_vars

-----------------------------------------------------------------------------
(* Properties of lists *)

\* no option
NoOption == [name |-> Null]

\* option `option` of the first section named `section`, or NoOption
OptionNamed(p, section, option) ==
    LET InSection(si) ==
            IF si = 0 THEN NoOption
            ELSE IF uci_lookup_list(p.sections[si].options, option) = 0 THEN NoOption
            ELSE p.sections[si].options[uci_lookup_list(p.sections[si].options, option)]
    IN  InSection(uci_lookup_list(p.sections, section))

\* the items the claim expects after value is added to what option o was
ItemsAfter(o, value) ==
    IF o.name = Null THEN <<value>>
    ELSE IF o.type = "list" THEN Append(o.list, value)
    ELSE <<o.string, value>>

\* *result of uci_add_list: the list found, or else the one allocated at
\* the tail of the section
AddListResult(before, after, section, option) ==
    LET Found(si, oi) ==
            IF oi # 0 /\ before.sections[si].options[oi].type = "list"
            THEN after.sections[si].options[oi]
            ELSE after.sections[si].options[Len(after.sections[si].options)]
        InSection(si) ==
            Found(si, uci_lookup_list(before.sections[si].options, option))
    IN  InSection(uci_lookup_list(before.sections, section))

\* C17: add_list of v to an option gives the list [v] when the option was
\* absent, the list followed by v when it was a list, and [u, v] when it
\* was the scalar u
C17_AddListAppends ==
    [][(Loaded /\ last'.op = "add_list" /\ last'.err = UCI_OK /\ nops' = nops + 1)
           => /\ AddListResult(pkg, pkg', last'.section, last'.option).name
                    = last'.option
              /\ AddListResult(pkg, pkg', last'.section, last'.option).type = "list"
              /\ AddListResult(pkg, pkg', last'.section, last'.option).list
                    = ItemsAfter(OptionNamed(pkg, last'.section, last'.option),
                                 last'.value)]_vars

\* a scalar became a list of two items and got a third
C17_Witness ==
    /\ Loaded
    /\ last.op = "add_list"
    /\ last.err = UCI_OK
    /\ OptionNamed(pkg, last.section, last.option).name # Null
    /\ OptionNamed(pkg, last.section, last.option).type = "list"
    /\ Len(OptionNamed(pkg, last.section, last.option).list) = 3
    /\ OptionNamed(pkg, last.section, last.option).list[1] = v1

\* the example of C17 as a file: option x '1' followed by list x '2'
C17_ListDirectiveAppends ==
    \A c \in {calls[k] : k \in DOMAIN calls \cap {1}} :
        canon = << <<"config", t, a>>, <<"option", x, v1>>, <<"list", x, v2>> >>
            => /\ c.err = UCI_OK
               /\ c.value.sections[1].options = <<ListOption(x, <<v1, v2>>)>>

-----------------------------------------------------------------------------
(* Extended lookup: uci_lookup_ext *)

MaxSections == 4
MaxIndex == 5

DecDigit == <<"0", "1", "2", "3", "4", "5", "6", "7", "8", "9">>

\* printf("%d", i) for -9 <= i <= 9
DecStr(i) == IF i < 0 THEN <<"-", DecDigit[1 - i]>> ELSE <<DecDigit[i + 1]>>

\* the value of a decimal digit, -1 for any other character
DigitValue(c) ==
    IF \E d \in 1..10 : DecDigit[d] = c
    THEN (CHOOSE d \in 1..10 : DecDigit[d] = c) - 1
    ELSE -1

RECURSIVE strtol_digits(_, _, _)
\* the digits of str from i on: <<value, position of the first character
\* that is not a digit>>
strtol_digits(str, i, acc) ==
    IF i > Len(str) \/ DigitValue(str[i]) < 0 THEN <<acc, i>>
    ELSE strtol_digits(str, i + 1, acc * 10 + DigitValue(str[i]))

\* strtol(str, &t, 10): <<value, position t points at>>; without a digit
\* the value is 0 and t is str
strtol(str) ==
    LET Signed(first, sign) ==
            IF strtol_digits(str, first, 0)[2] = first THEN <<0, 1>>
            ELSE <<sign * strtol_digits(str, first, 0)[1],
                   strtol_digits(str, first, 0)[2]>>
    IN  IF str # <<>> /\ str[1] = "-" THEN Signed(2, -1)
        ELSE IF str # <<>> /\ str[1] = "+" THEN Signed(2, 1)
        ELSE Signed(1, 1)

\* what uci_lookup_ext leaves in *res: the section (0 for the package
\* itself) and the option (0 for none, or for an option that is not there)
LookupResult(err, section, option) == [err |-> err, section |-> section, option |-> option]

RECURSIVE CountType(_, _, _)
\* the sections of sections[i..] the first loop of uci_lookup_ext counts
CountType(sections, type, i) ==
    IF i > Len(sections) THEN 0
    ELSE (IF type # Null /\ sections[i].type # type THEN 0 ELSE 1)
         + CountType(sections, type, i + 1)

RECURSIVE FindType(_, _, _, _, _)
\* the second loop: the section at which idx == c, 0 when the list ends
FindType(sections, type, idx, c, i) ==
    IF i > Len(sections) THEN 0
    ELSE IF type # Null /\ sections[i].type # type
    THEN FindType(sections, type, idx, c, i + 1)
    ELSE IF idx = c THEN i
    ELSE FindType(sections, type, idx, c + 1, i + 1)

\* a mutant of uci_lookup_index: a negative index is not turned around
uci_lookup_index_forward(p, type, idx, option) ==
    LET Found(si) ==
            IF si = 0 THEN LookupResult(UCI_ERR_NOTFOUND, 0, 0)
            ELSE IF option = Null THEN LookupResult(UCI_OK, si, 0)
            ELSE LookupResult(UCI_OK, si, uci_lookup_list(p.sections[si].options, option))
    IN  Found(FindType(p.sections, type, idx, 0, 1))

\* the end of uci_lookup_ext, once type and index are parsed
uci_lookup_index(p, type, idx, option) ==
    LET Found(si) ==
            IF si = 0 THEN LookupResult(UCI_ERR_NOTFOUND, 0, 0)
            ELSE IF option = Null THEN LookupResult(UCI_OK, si, 0)
            ELSE LookupResult(UCI_OK, si, uci_lookup_list(p.sections[si].options, option))
    IN  Found(FindType(p.sections, type,
                       IF idx < 0 THEN idx + CountType(p.sections, type, 1) ELSE idx,
                       0, 1))

\* uci_lookup_ext(ctx, &e, ptr) on a root whose packages have no file to
\* load them from
uci_lookup_ext(root, ptr) ==
    LET Indexed(p, type, idxstr, option) ==
            IF strtol(idxstr)[2] <= Len(idxstr) THEN LookupResult(UCI_ERR_INVAL, 0, 0)
            ELSE IF type # <<>> /\ ~uci_validate_str(type, FALSE)
            THEN LookupResult(UCI_ERR_INVAL, 0, 0)
            ELSE uci_lookup_index(p, IF type = <<>> THEN Null ELSE type,
                                  strtol(idxstr)[1], option)
        Closed(p, type, idxstr, rb, option) ==
            IF rb # Len(idxstr) THEN LookupResult(UCI_ERR_INVAL, 0, 0)
            ELSE Indexed(p, type, SubSeq(idxstr, 1, rb - 1), option)
        Opened(p, section, lb, option) ==
            IF lb > Len(section) THEN LookupResult(UCI_ERR_INVAL, 0, 0)
            ELSE Closed(p, SubSeq(section, 1, lb - 1),
                        SubSeq(section, lb + 1, Len(section)),
                        strchr(SubSeq(section, lb + 1, Len(section)), "]", 1), option)
        Plain(r) == LookupResult(r[1], r[2], r[3])
        InPackage(p, section, option) ==
            IF section = Null THEN LookupResult(UCI_OK, 0, 0)
            ELSE IF section = <<>> \/ uci_validate_name(section)
            THEN Plain(uci_lookup(p, section, option))
            ELSE IF section[1] # "@" THEN LookupResult(UCI_ERR_INVAL, 0, 0)
            ELSE Opened(p, Tail(section), strchr(Tail(section), "[", 1), option)
        Parsed(tuple) ==
            IF tuple.err # UCI_OK THEN LookupResult(tuple.err, 0, 0)
            ELSE IF uci_lookup_list(root, tuple.package) = 0
            THEN LookupResult(UCI_ERR_NOTFOUND, 0, 0)
            ELSE InPackage(root[uci_lookup_list(root, tuple.package)],
                           tuple.section, tuple.option)
    IN  Parsed(uci_parse_tuple(ptr))

\* the section types of the packages looked into
TypeSeqs == UNION {[1..k -> Types] : k \in 0..MaxSections}

RECURSIVE FileOf(_, _)
\* a file of anonymous sections of these types, each with an option x
FileOf(types, i) ==
    IF i > Len(types) THEN <<>>
    ELSE << <<"config", types[i]>>, <<"option", x, v1>> >> \o FileOf(types, i + 1)

\* the string pkg.@type[idx] or pkg.@type[idx].option
ExtendedPtr(package, type, idx, option) ==
    package \o Dot \o <<"@">> \o type \o <<"[">> \o DecStr(idx) \o <<"]">>
    \o (IF option = Null THEN <<>> ELSE Dot \o option)

LookupCall(type, idx, option, r) ==
    [op |-> "lookup", type |-> type, idx |-> idx, name |-> option,
     err |-> r.err, section |-> r.section, option |-> r.option]

LookupInit ==
    /\ canon \in {FileOf(types, 1) : types \in TypeSeqs}
    /\ savef = <<>>
    /\ ctxroot = uci_import(<<>>, canon, n, TRUE, ContextFlags).root
    /\ pkg = ctxroot[1]
    /\ last = [LookupCall(Null, 0, Null, LookupResult(UCI_OK, 0, 0)) EXCEPT !.op = "none"]
    /\ fresh = FALSE
    /\ nops = 0
    /\ ctx = [p \in Procs |-> IdleContext]
    /\ lock = [p \in Procs |-> "none"]
    /\ calls = <<>>
    /\ faults = 0

\* uci_lookup_ext(ctx, &e, "n.@type[idx]") and "n.@type[idx].option"
LookupExt ==
    /\ nops = 0
    /\ \E type \in Types, idx \in -MaxIndex..MaxIndex, option \in {Null, x} :
          last' = LookupCall(type, idx, option,
                             uci_lookup_ext(ctxroot, ExtendedPtr(n, type, idx, option)))
    /\ nops' = 1
    /\ UNCHANGED <<canon, savef, pkg, fresh, ctx, lock, calls, faults, ctxroot>>

LookupNext == LookupExt

SpecLookup == LookupInit /\ [][LookupNext]_vars

RECURSIVE IndexesOfType(_, _, _)
\* the positions in sections[i..] of the sections of that type
IndexesOfType(sections, type, i) ==
    IF i > Len(sections) THEN <<>>
    ELSE (IF sections[i].type = type THEN <<i>> ELSE <<>>)
         \o IndexesOfType(sections, type, i + 1)

\* the section the claim expects for index idx among the positions found,
\* 0 when it expects NotFound
ExpectedSection(found, idx) ==
    IF 0 <= idx /\ idx < Len(found) THEN found[idx + 1]
    ELSE IF -Len(found) <= idx /\ idx < 0 THEN found[Len(found) + idx + 1]
    ELSE 0

\* what the claim expects of a lookup that should reach section si
ExpectedLookup(call, si) ==
    IF si = 0 THEN call.err = UCI_ERR_NOTFOUND
    ELSE /\ call.err = UCI_OK
         /\ call.section = si
         /\ call.name # Null =>
               /\ call.option # 0
               /\ pkg.sections[si].options[call.option].name = call.name

\* C18: pkg.@T[i] is the i-th section of type T for 0 <= i < n, the
\* (n+i)-th for -n <= i < 0, and NotFound for any other i; with an option,
\* the lookup gives that option of that section
C18_IndexedLookup ==
    last.op = "lookup"
        => ExpectedLookup(last,
                ExpectedSection(IndexesOfType(pkg.sections, last.type, 1), last.idx))

\* three sections of type t and one of another type in between:
\* n.@t[-1].x is option x of the last section of type t
C18_Witness ==
    /\ last.op = "lookup"
    /\ Len(IndexesOfType(pkg.sections, t, 1)) = 3
    /\ Len(pkg.sections) = 4
    /\ pkg.sections[4].type = u
    /\ last.type = t
    /\ last.idx = -1
    /\ last.name = x
    /\ last.err = UCI_OK
    /\ last.section = 3
    /\ last.option = 1

-----------------------------------------------------------------------------
(* The text of a file: uci_escape and uci_export_package write it,         *)
(* uci_getln and the tokenizer of util.c read it                           *)

Quote == "'"
Backslash == "\\"
Newline == "\n"
Tab == "\t"

RECURSIVE uci_escape(_, _)
\* str[i..] with every single quote replaced by UCI_QUOTE_ESCAPE
uci_escape(str, i) ==
    IF i > Len(str) THEN <<>>
    ELSE (IF str[i] = Quote THEN <<Quote, Backslash, Quote, Quote>> ELSE <<str[i]>>)
         \o uci_escape(str, i + 1)

\* fprintf(stream, " '%s'", uci_escape(ctx, str)) without the blank
Quoted(str) == <<Quote>> \o uci_escape(str, 1) \o <<Quote>>

RECURSIVE ExportItemsText(_, _, _)
ExportItemsText(name, items, i) ==
    IF i > Len(items) THEN <<>>
    ELSE <<Tab, "l", "i", "s", "t", " ">> \o Quoted(name) \o <<" ">> \o Quoted(items[i])
         \o <<Newline>> \o ExportItemsText(name, items, i + 1)

RECURSIVE ExportOptionsText(_, _)
ExportOptionsText(options, i) ==
    IF i > Len(options) THEN <<>>
    ELSE (IF options[i].type = "string"
          THEN <<Tab, "o", "p", "t", "i", "o", "n", " ">> \o Quoted(options[i].name)
               \o <<" ">> \o Quoted(options[i].string) \o <<Newline>>
          ELSE ExportItemsText(options[i].name, options[i].list, 1))
         \o ExportOptionsText(options, i + 1)

RECURSIVE ExportSectionsText(_, _, _)
ExportSectionsText(sections, i, flags) ==
    IF i > Len(sections) THEN <<>>
    ELSE <<Newline, "c", "o", "n", "f", "i", "g", " ">> \o Quoted(sections[i].type)
         \o (IF ~sections[i].anonymous \/ UCI_FLAG_EXPORT_NAME \in flags
             THEN <<" ">> \o Quoted(sections[i].name) ELSE <<>>)
         \o <<Newline>>
         \o ExportOptionsText(sections[i].options, 1)
         \o ExportSectionsText(sections, i + 1, flags)

\* the bytes uci_export(ctx, stream, p, header) writes
uci_export(p, header, flags) ==
    (IF header
     THEN <<"p", "a", "c", "k", "a", "g", "e", " ">> \o Quoted(p.name) \o <<Newline>>
     ELSE <<>>)
    \o ExportSectionsText(p.sections, 1, flags)
    \o <<Newline>>

RECURSIVE SplitLines(_, _, _)
\* the lines uci_getln hands out for text[i..], line being what is read of
\* the current one
SplitLines(text, i, line) ==
    IF i > Len(text) THEN (IF line = <<>> THEN <<>> ELSE <<line>>)
    ELSE IF text[i] = Newline THEN <<line>> \o SplitLines(text, i + 1, <<>>)
    ELSE SplitLines(text, i + 1, Append(line, text[i]))

isspace(c) == c = " " \/ c = Tab \/ c = Newline

RECURSIVE skip_whitespace(_, _)
\* the position of the first character of line[i..] that is not a blank
skip_whitespace(line, i) ==
    IF i <= Len(line) /\ isspace(line[i]) THEN skip_whitespace(line, i + 1) ELSE i

RECURSIVE EndOfWord(_, _)
\* strtok_r: the position of the first blank of line[i..]
EndOfWord(line, i) ==
    IF i > Len(line) \/ line[i] = " " \/ line[i] = Tab THEN i ELSE EndOfWord(line, i + 1)

RECURSIVE parse_str(_, _, _)
\* parse_str from position i with target holding acc: <<the word, the
\* position after it>>; single quotes, backslashes and plain characters
parse_str(line, i, acc) ==
    LET Loop(acc1, j) ==
            IF j <= Len(line) /\ ~isspace(line[j]) THEN parse_str(line, j, acc1)
            ELSE <<acc1, IF j <= Len(line) THEN j + 1 ELSE j>>
        Closed(k) ==
            IF k > Len(line) THEN <<LexError("unterminated '"), Len(line) + 1>>
            ELSE Loop(acc \o SubSeq(line, i + 1, k - 1), k + 1)
    IN  IF i > Len(line) THEN <<acc, i>>
        ELSE IF line[i] = Quote THEN Closed(strchr(line, Quote, i + 1))
        ELSE IF line[i] = Backslash
        THEN (IF i + 1 > Len(line) THEN <<acc, i + 1>>
              ELSE Loop(Append(acc, line[i + 1]), i + 2))
        ELSE Loop(Append(acc, line[i]), i + 1)

RECURSIVE LexArgs(_, _)
\* the words successive next_arg calls take from line[i..]
LexArgs(line, i) ==
    LET Taken(r) ==
            IF IsLexError(r[1]) THEN <<r[1]>> ELSE <<r[1]>> \o LexArgs(line, r[2])
    IN  IF i > Len(line) THEN <<>>
        ELSE Taken(parse_str(line, skip_whitespace(line, i), <<>>))

\* the command uci_parse_line takes a word for
Command(word) ==
    IF word[1] = "p" /\ (Len(word) = 1 \/ Tail(word) = <<"a", "c", "k", "a", "g", "e">>)
    THEN "package"
    ELSE IF word[1] = "c" /\ (Len(word) = 1 \/ Tail(word) = <<"o", "n", "f", "i", "g">>)
    THEN "config"
    ELSE IF word[1] = "o" /\ (Len(word) = 1 \/ Tail(word) = <<"p", "t", "i", "o", "n">>)
    THEN "option"
    ELSE IF word[1] = "l" /\ (Len(word) = 1 \/ Tail(word) = <<"i", "s", "t">>)
    THEN "list"
    ELSE "invalid"

\* a line of text as uci_parse_line takes it apart: the command and its
\* words; nothing for a blank line or a comment
LexLine(line) ==
    LET Word(i, j) ==
            IF line[i] = "#" THEN <<>>
            ELSE <<Command(SubSeq(line, i, j - 1))>> \o LexArgs(line, j + 1)
        Start(i) == IF i > Len(line) THEN <<>> ELSE Word(i, EndOfWord(line, i))
    IN  Start(skip_whitespace(line, 1))

\* the logical lines of a text
LexLines(text) ==
    [k \in 1..Len(SplitLines(text, 1, <<>>)) |-> LexLine(SplitLines(text, 1, <<>>)[k])]

\* uci_import of a text
uci_import_text(root, text, name, single, flags) ==
    uci_import(root, LexLines(text), name, single, flags)

-----------------------------------------------------------------------------
(* Export, import and export again                                         *)

MaxEdits == 2       \* changes made to the package before it is exported

\* option values: empty, plain, with single quotes, a backslash, a line break
ExportValues ==
    {<<>>, v1, <<Quote>>, <<"1", Quote, "1">>, <<Backslash>>, <<"1", Newline, "1">>}

RoundTripCall(header, err, first, second) ==
    [op |-> "roundtrip", err |-> err, header |-> header, first |-> first,
     second |-> second]

\* a package with a named and an anonymous section, in a context of its own
ExportInit ==
    /\ canon = << <<"config", t, a>>, <<"config", t>> >>
    /\ savef = <<>>
    /\ ctxroot = uci_import(<<>>, canon, n, TRUE, ContextFlags).root
    /\ pkg = ctxroot[1]
    /\ last = Call("none", UCI_OK, Null, Null, Null)
    /\ fresh = FALSE
    /\ nops = 0
    /\ ctx = [p \in Procs |-> IdleContext]
    /\ lock = [p \in Procs |-> "none"]
    /\ calls = <<>>
    /\ faults = 0

Edited == last.op # "roundtrip" /\ nops < MaxEdits

\* uci_set(ctx, p, section, option, value, NULL)
ExportSet ==
    /\ Edited
    /\ \E section \in Sections \cup SectionNames(pkg) :
          \/ \E value \in Types :
                Mutated("set", uci_set(pkg, section, Null, value, FALSE),
                        section, Null, value)
          \/ \E option \in Options, value \in ExportValues :
                Mutated("set", uci_set(pkg, section, option, value, FALSE),
                        section, option, value)

\* uci_add_list(ctx, p, section, option, value, NULL)
ExportAddList ==
    /\ Edited
    /\ \E section \in SectionNames(pkg), option \in Options, value \in ExportValues :
          Mutated("add_list", uci_add_list(pkg, section, option, value, FALSE),
                  section, option, value)

\* uci_add_section(ctx, p, type, &s)
ExportAddSection ==
    LET Done(r, type) ==
            Mutated("add_section", r, r.p.sections[Len(r.p.sections)].name, Null, type)
    IN  /\ Edited
        /\ \E type \in Types : Done(uci_add_section(pkg, type, FALSE), type)

\* uci_export to a stream, uci_import of that stream in a fresh context
\* (with the package name when the export wrote no header), and uci_export
\* of the package imported
RoundTrip ==
    LET Again(header, first, r) ==
            last' = RoundTripCall(header, r.err, first,
                                  IF r.err = UCI_OK
                                  THEN uci_export(r.p, header, ContextFlags)
                                  ELSE <<>>)
        Exported(header, first) ==
            Again(header, first,
                  uci_import_text(<<>>, first, IF header THEN Null ELSE n, ~header,
                                  ContextFlags))
    IN  /\ last.op # "roundtrip"
        /\ \E header \in BOOLEAN : Exported(header, uci_export(pkg, header, ContextFlags))
        /\ UNCHANGED <<canon, savef, pkg, fresh, nops, procvars, ctxroot>>

ExportNext == ExportSet \/ ExportAddList \/ ExportAddSection \/ RoundTrip

SpecExport == ExportInit /\ [][ExportNext]_vars

\* every option value of the package is one uci_validate_text accepts
ValidText(p) ==
    \A si \in 1..Len(p.sections) : \A oi \in 1..Len(p.sections[si].options) :
        p.sections[si].options[oi].type = "string"
            => uci_validate_text(p.sections[si].options[oi].string)

\* C19: for every package p the export of the import of the export of p is
\* the export of p, byte for byte; empty values and values with single
\* quotes included
C19_ExportRoundTrip ==
    last.op = "roundtrip" => last.err = UCI_OK /\ last.second = last.first

\* the round trip of a package whose option values hold no line break
C19_ValidTextRoundTrip ==
    last.op = "roundtrip" /\ ValidText(pkg)
        => last.err = UCI_OK /\ last.second = last.first

\* a package with a single quote in a value has made the round trip
C19_QuoteRoundTrip ==
    /\ last.op = "roundtrip"
    /\ last.err = UCI_OK
    /\ \E si \in 1..Len(pkg.sections) : \E oi \in 1..Len(pkg.sections[si].options) :
          /\ pkg.sections[si].options[oi].type = "string"
          /\ strchr(pkg.sections[si].options[oi].string, Quote, 1)
                <= Len(pkg.sections[si].options[oi].string)

-----------------------------------------------------------------------------
(* Properties of the order of the options of a section                     *)

\* the position of an option among the options of its section, 0 when the
\* section or the option is not there
OptionIndex(p, section, option) ==
    LET In(si) == IF si = 0 THEN 0 ELSE uci_lookup_list(p.sections[si].options, option)
    IN  In(uci_lookup_list(p.sections, section))

\* the type of an option that is there
OptionType(p, section, option) ==
    p.sections[uci_lookup_list(p.sections, section)]
        .options[OptionIndex(p, section, option)].type

\* uci_set or uci_add_list has just succeeded on an option that was there
ChangedOption ==
    /\ nops' = nops + 1
    /\ last'.op \in {"set", "add_list"}
    /\ last'.err = UCI_OK
    /\ last'.option # Null
    /\ OptionIndex(pkg, last'.section, last'.option) # 0

\* C20: sections, options and list items keep the order of their first
\* appearance; uci_set and uci_add_list on an option that exists leave the
\* option at its position among the options of its section
C20_ChangeKeepsPosition ==
    [][ChangedOption
        => OptionIndex(pkg', last'.section, last'.option)
               = OptionIndex(pkg, last'.section, last'.option)]_vars

\* a change that leaves the option the kind it was, a string or a list,
\* leaves it at its position
C20_SameKindKeepsPosition ==
    [][ChangedOption
       /\ OptionType(pkg', last'.section, last'.option)
              = OptionType(pkg, last'.section, last'.option)
       /\ (last'.op = "set" => OptionType(pkg, last'.section, last'.option) = "string")
        => OptionIndex(pkg', last'.section, last'.option)
               = OptionIndex(pkg, last'.section, last'.option)]_vars

-----------------------------------------------------------------------------
(* Packages loaded by name and by path. The context has "." as its confdir, *)
(* so that n and ./n name the same file.                                    *)

RECURSIVE strrchr(_, _, _)
\* position of the last c in str[1..i], 0 when there is none
strrchr(str, c, i) ==
    IF i = 0 THEN 0 ELSE IF str[i] = c THEN i ELSE strrchr(str, c, i - 1)

\* a mutant of uci_file_load_name: every package is taken to be in confdir
uci_file_load_confdir(root, lines, file, name) ==
    IF name[1] = "." /\ (Len(name) < 2 \/ name[2] # "/")
    THEN ImportResult(UCI_ERR_NOTFOUND, root, NoPkg, <<>>)
    ELSE uci_file_load(root, lines, file,
                       SubSeq(name, strrchr(name, "/", Len(name)) + 1, Len(name)))

\* uci_file_load of a name of any kind: a path that starts with ./ or / is
\* loaded without history, anything else from confdir with its history
uci_file_load_name(root, lines, file, name) ==
    LET ByPath(r) ==
            IF r.err # UCI_OK \/ r.p.name = Null THEN r
            ELSE ImportResult(UCI_OK,
                              [r.root EXCEPT ![Len(r.root)] = [r.p EXCEPT !.has_history = FALSE]],
                              [r.p EXCEPT !.has_history = FALSE], r.stderr)
    IN  IF name[1] = "." /\ (Len(name) < 2 \/ name[2] # "/")
        THEN ImportResult(UCI_ERR_NOTFOUND, root, NoPkg, <<>>)
        ELSE IF name[1] \in {".", "/"}
        THEN ByPath(uci_import(root, lines,
                                 SubSeq(name, strrchr(name, "/", Len(name)) + 1, Len(name)),
                                 TRUE, ContextFlags))
        ELSE uci_file_load(root, lines, file, name)

\* uci_save of a package of any kind: one without history is committed to
\* its own file
uci_save_name(p, lines, file) ==
    LET Saved(r) == CommitResult(r.err, r.p, lines, r.file)
    IN  IF ~p.has_history THEN uci_file_commit(p, lines, file, FALSE)
        ELSE Saved(uci_save(p, file))

\* the names a package is loaded by
LoadNames == {n, <<".", "/">> \o n, <<".">> \o n}

\* uci_load(ctx, name, &p) when no package is in the root
LoadName ==
    LET Done(r, name) ==
            /\ pkg' = IF r.err = UCI_OK THEN r.p ELSE NoPkg
            /\ last' = Call("load", r.err, Null, Null, name)
            /\ fresh' = (r.err = UCI_OK /\ savef = <<>>)
    IN  /\ nops < MaxOps
        /\ ~Loaded
        /\ \E name \in LoadNames : Done(uci_file_load_name(<<>>, canon, savef, name), name)
        /\ nops' = nops + 1
        /\ UNCHANGED <<canon, savef, procvars, ctxroot>>

\* uci_save(ctx, p)
SaveName ==
    LET Done(r) ==
            /\ pkg' = r.p
            /\ canon' = r.lines
            /\ savef' = r.file
            /\ last' = Call("save", r.err, Null, Null, Null)
    IN  /\ nops < MaxOps
        /\ Loaded
        /\ Done(uci_save_name(pkg, canon, savef))
        /\ nops' = nops + 1
        /\ UNCHANGED <<fresh, procvars, ctxroot>>

PathNext ==
    \/ LoadName
    \/ Unload
    \/ Set
    \/ Delete
    \/ Rename
    \/ AddList
    \/ AddSection
    \/ SaveName
    \/ Commit

SpecPath == Init /\ [][PathNext]_vars

-----------------------------------------------------------------------------
(* Streams and locks: uci_open_stream call by call in uci_file_load,       *)
(* uci_file_commit and uci_save, each system call of which may fail        *)

MaxStreamOps == 2   \* calls of load, save and commit of each process

StreamOps == {"load", "commit", "save"}

\* the file an operation opens first: the canonical file or the save file
StreamFile(op) == IF op = "save" THEN "savef" ELSE "canon"

\* the write argument of its uci_open_stream call
StreamWrite(op) == op # "load"

\* a context with no call in progress and no descriptor
ClosedContext ==
    [pc |-> "idle", op |-> "none", err |-> UCI_OK, fd |-> FALSE, failed |-> {},
     left |-> {}]

StreamInit ==
    /\ canon = << <<"config", t, a>> >>
    /\ savef = <<>>
    /\ pkg = NoPkg
    /\ last = Call("none", UCI_OK, Null, Null, Null)
    /\ fresh = FALSE
    /\ nops = 0
    /\ ctx = [p \in Procs |-> ClosedContext]
    /\ lock = [p \in Procs |-> "none"]
    /\ calls = <<>>
    /\ faults = 0
    /\ ctxroot = <<>>

\* the lock a descriptor on file holds that flock(fd, LOCK_EX or LOCK_SH) of
\* another descriptor has to wait for
Conflicts(held, write) == held = "ex" \/ (write /\ held = "sh")

\* flock on the descriptor that p has just opened on file returns: no
\* descriptor of another call, whether in progress or left open, holds a
\* conflicting lock
LockGranted(p, file, write) ==
    /\ \A q \in Procs \ {p} :
          ~(ctx[q].fd /\ StreamFile(ctx[q].op) = file /\ Conflicts(lock[q], write))
    /\ \A q \in Procs : \A d \in ctx[q].left :
          ~(d.file = file /\ Conflicts(d.lock, write))

\* the call of p returns err; a descriptor that is still open stays open
\* with the lock it holds
StreamReturn(p, err, stage) ==
    /\ ctx' = [ctx EXCEPT ![p] =
                  [pc |-> "idle", op |-> "none", err |-> err, fd |-> FALSE,
                   failed |-> ctx[p].failed \cup {stage},
                   left |-> IF ctx[p].fd
                            THEN ctx[p].left \cup
                                 {[file |-> StreamFile(ctx[p].op), lock |-> lock[p]]}
                            ELSE ctx[p].left]]
    /\ lock' = [lock EXCEPT ![p] = "none"]
    /\ calls' = Returned(p, ctx[p].op, err, Null)

Fault == faults < MaxFaults /\ faults' = faults + 1

\* p is between two calls and has calls left
StreamIdle(p) == ctx[p].pc = "idle" /\ Cardinality(CallsOf(p)) < MaxStreamOps

\* open(filename, mode, UCI_FILEMODE) has returned a descriptor
SOpen(p) ==
    /\ StreamIdle(p)
    /\ \E op \in StreamOps :
          ctx' = [ctx EXCEPT ![p].pc = "flock", ![p].op = op, ![p].fd = TRUE,
                             ![p].err = UCI_OK]
    /\ UNCHANGED <<canon, savef, onevars, lock, calls, faults, ctxroot>>

\* stat (for reading) or open fails: UCI_ERR_NOTFOUND or UCI_ERR_IO is
\* thrown with no descriptor
SOpenFails(p) ==
    /\ StreamIdle(p)
    /\ Fault
    /\ \E op \in StreamOps, err \in {UCI_ERR_NOTFOUND, UCI_ERR_IO} :
          /\ err = UCI_ERR_NOTFOUND => ~StreamWrite(op)
          /\ ctx' = [ctx EXCEPT ![p] = [ClosedContext EXCEPT !.err = err,
                                                            !.failed = ctx[p].failed \cup {"open"},
                                                            !.left = ctx[p].left]]
          /\ calls' = Returned(p, op, err, Null)
    /\ UNCHANGED <<canon, savef, onevars, lock, ctxroot>>

\* flock(fd, write ? LOCK_EX : LOCK_SH) returns 0
SFlock(p) ==
    /\ ctx[p].pc = "flock"
    /\ LockGranted(p, StreamFile(ctx[p].op), StreamWrite(ctx[p].op))
    /\ lock' = [lock EXCEPT ![p] = IF StreamWrite(ctx[p].op) THEN "ex" ELSE "sh"]
    /\ ctx' = [ctx EXCEPT ![p].pc = "lseek"]
    /\ UNCHANGED <<canon, savef, onevars, calls, faults, ctxroot>>

\* lseek(fd, 0, pos) and fdopen(fd, ...) succeed, one after the other
SOpened(p) ==
    /\ ctx[p].pc \in {"lseek", "fdopen"}
    /\ ctx' = [ctx EXCEPT ![p].pc = IF ctx[p].pc = "lseek" THEN "fdopen" ELSE "body"]
    /\ UNCHANGED <<canon, savef, onevars, lock, calls, faults, ctxroot>>

\* flock, lseek or fdopen fails: goto error, UCI_THROW(ctx, UCI_ERR_IO). In
\* uci_file_load and uci_file_commit the throw leaves the function; in
\* uci_save it is trapped and uci_close_stream(f) finds f NULL
SOpenedFails(p) ==
    /\ ctx[p].pc \in {"flock", "lseek", "fdopen"}
    /\ Fault
    /\ StreamReturn(p, UCI_ERR_IO, ctx[p].pc)
    /\ UNCHANGED <<canon, savef, onevars, ctxroot>>

\* what the operation does with the stream between UCI_TRAP_SAVE and
\* UCI_TRAP_RESTORE; uci_file_load goes on to uci_load_history
SBody(p) ==
    /\ ctx[p].pc = "body"
    /\ ctx' = [ctx EXCEPT ![p].pc = IF ctx[p].op = "load" THEN "history" ELSE "close"]
    /\ UNCHANGED <<canon, savef, onevars, lock, calls, faults, ctxroot>>

\* an error thrown there (a parse error, a failing allocation, ftruncate):
\* the trap leads to done
SBodyFails(p) ==
    /\ ctx[p].pc = "body"
    /\ ctx[p].op # "save"
    /\ Fault
    /\ \E err \in {UCI_ERR_PARSE, UCI_ERR_MEM, UCI_ERR_IO} :
          ctx' = [ctx EXCEPT ![p].pc = "close", ![p].err = err, ![p].failed = @ \cup {"body"}]
    /\ UNCHANGED <<canon, savef, onevars, lock, calls, ctxroot>>

\* uci_load_history of uci_file_load, after UCI_TRAP_RESTORE
SHistory(p) ==
    /\ ctx[p].pc = "history"
    /\ ctx' = [ctx EXCEPT ![p].pc = "close"]
    /\ UNCHANGED <<canon, savef, onevars, lock, calls, faults, ctxroot>>

\* asprintf fails in uci_load_history: UCI_THROW(ctx, UCI_ERR_MEM) with no
\* trap of uci_file_load in place
SHistoryFails(p) ==
    /\ ctx[p].pc = "history"
    /\ Fault
    /\ StreamReturn(p, UCI_ERR_MEM, "history")
    /\ UNCHANGED <<canon, savef, onevars, ctxroot>>

\* done: uci_close_stream(f), then the error, if any, is thrown
SClose(p) ==
    /\ ctx[p].pc = "close"
    /\ ctx' = [ctx EXCEPT ![p].pc = "idle", ![p].op = "none", ![p].fd = FALSE]
    /\ lock' = [lock EXCEPT ![p] = "none"]
    /\ calls' = Returned(p, ctx[p].op, ctx[p].err, Null)
    /\ UNCHANGED <<canon, savef, onevars, faults, ctxroot>>

StreamNext ==
    \E p \in Procs :
        \/ SOpen(p)
        \/ SOpenFails(p)
        \/ SFlock(p)
        \/ SOpened(p)
        \/ SOpenedFails(p)
        \/ SBody(p)
        \/ SBodyFails(p)
        \/ SHistory(p)
        \/ SHistoryFails(p)
        \/ SClose(p)

SpecStream == StreamInit /\ [][StreamNext]_vars

\* C22: when load, save or commit has returned, with or without an error,
\* every stream it opened is closed and every lock it took is released
C22_StreamsReleased ==
    \A p \in Procs : ctx[p].pc = "idle" => ctx[p].left = {} /\ lock[p] = "none"

\* an error before the descriptor is there, or one that is trapped with the
\* stream in hand, leaves nothing open
C22_TrappedErrorsRelease ==
    \A p \in Procs :
        ctx[p].pc = "idle" /\ ctx[p].failed \subseteq {"open", "body"}
            => ctx[p].left = {} /\ lock[p] = "none"

-----------------------------------------------------------------------------
(* Revert: the deltas addressed to a section or an option are taken out of *)
(* the save file and the package is loaded again                           *)

MaxChanges == 2     \* mutations between the load and the revert

\* the tuple of a line of the save file, without its command prefix
HistoryTuple(line) ==
    IF line # <<>> /\ line[1] \in {"-", "@"} THEN uci_parse_tuple(Tail(line))
    ELSE uci_parse_tuple(line)

\* the line is addressed to section, or to option of section
Addressed(line, section, option) ==
    LET Is(tp) ==
            /\ tp.err = UCI_OK
            /\ tp.section = section
            /\ option # Null => tp.option = option
    IN  Is(HistoryTuple(line))

RECURSIVE uci_filter_history(_, _, _, _)
\* file[i..] without the lines addressed to section[.option]
uci_filter_history(file, section, option, i) ==
    IF i > Len(file) THEN <<>>
    ELSE (IF Addressed(file[i], section, option) THEN <<>> ELSE <<file[i]>>)
         \o uci_filter_history(file, section, option, i + 1)

\* a mutant of uci_revert: the save file is left as it is
uci_revert_reload(p, lines, file, section, option) ==
    LET Loaded1(r) ==
            CommitResult(r.err, IF r.err = UCI_OK THEN r.p ELSE NoPkg, lines, file)
    IN  Loaded1(uci_file_load(<<>>, lines, file, p.name))

\* uci_revert(ctx, &p, section, option)
uci_revert(p, lines, file, section, option) ==
    LET Loaded1(r, kept) ==
            CommitResult(r.err, IF r.err = UCI_OK THEN r.p ELSE NoPkg, lines, kept)
        Filtered(kept) == Loaded1(uci_file_load(<<>>, lines, kept, p.name), kept)
    IN  Filtered(uci_filter_history(file, section, option, 1))

\* package n loaded from a canonical file with sections a and b while the
\* save file is empty
RevertInit ==
    /\ canon = << <<"config", t, a>>, <<"option", x, v1>>, <<"option", y, v2>>,
                  <<"config", t, b>>, <<"option", x, v1>> >>
    /\ savef = <<>>
    /\ pkg = uci_file_load(<<>>, canon, savef, n).p
    /\ last = Call("load", UCI_OK, Null, Null, Null)
    /\ fresh = TRUE
    /\ nops = 0
    /\ ctx = [p \in Procs |-> IdleContext]
    /\ lock = [p \in Procs |-> "none"]
    /\ calls = <<>>
    /\ faults = 0
    /\ ctxroot = <<>>

\* a public mutation of the package
RevertChange ==
    /\ nops < MaxChanges
    /\ last.op # "revert"
    /\ Loaded
    /\ \/ \E section \in Sections, value \in Types :
             Mutated("set", uci_set(pkg, section, Null, value, FALSE),
                     section, Null, value)
       \/ \E section \in Sections, option \in Options :
             Mutated("set", uci_set(pkg, section, option, v2, FALSE), section, option, v2)
       \/ \E section \in Sections, option \in Options \cup {Null} :
             Mutated("delete", uci_delete(pkg, section, option, FALSE),
                     section, option, Null)
       \/ \E section \in Sections, name \in Sections :
             Mutated("rename", uci_rename(pkg, section, Null, name, FALSE),
                     section, Null, name)
       \/ \E section \in Sections, option \in Options, name \in Options :
             Mutated("rename", uci_rename(pkg, section, option, name, FALSE),
                     section, option, name)
       \/ \E section \in Sections, option \in Options :
             Mutated("add_list", uci_add_list(pkg, section, option, v2, FALSE),
                     section, option, v2)

\* uci_save(ctx, p)
RevertSave ==
    LET Done(r) ==
            /\ pkg' = r.p
            /\ savef' = r.file
            /\ last' = Call("save", r.err, Null, Null, Null)
    IN  /\ last.op \notin {"load", "save", "revert"}
        /\ Loaded
        /\ Done(uci_save(pkg, savef))
        /\ UNCHANGED <<canon, fresh, nops, procvars, ctxroot>>

\* uci_revert(ctx, &p, section, option)
Revert ==
    LET Done(r, section, option) ==
            /\ pkg' = r.p
            /\ savef' = r.file
            /\ last' = Call("revert", r.err, section, option, Null)
    IN  /\ last.op \notin {"load", "revert"}
        /\ Loaded
        /\ \E section \in Sections, option \in Options \cup {Null} :
              Done(uci_revert(pkg, canon, savef, section, option), section, option)
        /\ UNCHANGED <<canon, fresh, nops, procvars, ctxroot>>

RevertNext == RevertChange \/ RevertSave \/ Revert

SpecRevert == RevertInit /\ [][RevertNext]_vars

\* the options of the section named section, or that there is none
SectionOptions(p, section) ==
    LET Of(si) == IF si = 0 THEN <<"none">> ELSE <<"options", p.sections[si].options>>
    IN  Of(uci_lookup_list(p.sections, section))

\* C23: after a clean load, mutations and a save, the revert of a section
\* gives its options the values of the canonical file again, takes every
\* pending and saved delta addressed to the section or its options away and
\* leaves the other deltas in place
C23_RevertRestoresSection ==
    [][(last'.op = "revert" /\ last.op = "save" /\ last'.option = Null)
        => /\ last'.err = UCI_OK
           /\ SectionOptions(pkg', last'.section)
                  = SectionOptions(uci_import(<<>>, canon, n, TRUE, ContextFlags).p,
                                   last'.section)
           /\ \A i \in 1..Len(savef') : ~Addressed(savef'[i], last'.section, Null)
           /\ \A i \in 1..Len(pkg'.history) : pkg'.history[i].section # last'.section
           /\ \E f \in [1..Len(savef') -> 1..Len(savef)] :
                 /\ \A i \in 1..Len(savef') : savef'[i] = savef[f[i]]
                 /\ \A i, j \in 1..Len(savef') : i < j => f[i] < f[j]
                 /\ \A k \in 1..Len(savef) :
                       ~Addressed(savef[k], last'.section, Null)
                           => \E i \in 1..Len(savef') : f[i] = k]_vars

\* option x of section a, set to another value and saved, has its value of
\* the canonical file again while a delta of section b is still saved
C23_Witness ==
    /\ last.op = "revert"
    /\ last.section = a
    /\ last.option = Null
    /\ \E i \in 1..Len(savef) : Addressed(savef[i], b, Null)
    /\ SectionOptions(pkg, a) = <<"options", <<StringOption(x, v1), StringOption(y, v2)>> >>
    /\ SectionOptions(pkg, b) # <<"options", <<StringOption(x, v1)>> >>


\* no line of the file renames a section
NoSectionRename(file) ==
    \A i \in 1..Len(file) :
        file[i][1] = "@" => HistoryTuple(file[i]).option # Null

\* the same where no section was renamed
C23_RevertWithoutSectionRename ==
    [][(last'.op = "revert" /\ last.op = "save" /\ last'.option = Null
        /\ NoSectionRename(savef))
        => /\ last'.err = UCI_OK
           /\ SectionOptions(pkg', last'.section)
                  = SectionOptions(uci_import(<<>>, canon, n, TRUE, ContextFlags).p,
                                   last'.section)
           /\ \A i \in 1..Len(savef') : ~Addressed(savef'[i], last'.section, Null)
           /\ \A i \in 1..Len(pkg'.history) : pkg'.history[i].section # last'.section]_vars

-----------------------------------------------------------------------------
(* Properties of the pending deltas                                        *)

\* C24: on a package with has_history a successful public set, delete,
\* rename, add_list or add_section that changes the tree appends exactly
\* one delta to the pending list, whatever it calls to do its work
C24_OneDeltaPerMutation ==
    [][(/\ nops' = nops + 1
        /\ last'.op \in {"set", "delete", "rename", "add_list", "add_section"}
        /\ last'.err = UCI_OK
        /\ pkg.has_history
        /\ pkg'.sections # pkg.sections)
        => /\ Len(pkg'.history) = Len(pkg.history) + 1
           /\ SubSeq(pkg'.history, 1, Len(pkg.history)) = pkg.history]_vars


\* the same for every mutation but the delete of a section
C24_OneDeltaButSectionDelete ==
    [][(/\ nops' = nops + 1
        /\ last'.op \in {"set", "delete", "rename", "add_list", "add_section"}
        /\ ~(last'.op = "delete" /\ last'.option = Null)
        /\ last'.err = UCI_OK
        /\ pkg.has_history
        /\ pkg'.sections # pkg.sections)
        => /\ Len(pkg'.history) = Len(pkg.history) + 1
           /\ SubSeq(pkg'.history, 1, Len(pkg.history)) = pkg.history]_vars

-----------------------------------------------------------------------------
(* The command line: cli.c. What the library calls return is drawn from    *)
(* Rets; main is followed from the first word after the options.           *)

\* the words the command line is tried with; bogus is no command
Words ==
    {"batch", "show", "changes", "export", "commit", "get", "set", "ren", "rename",
     "revert", "del", "import", "help", "add", "bogus"}

\* what a library call may return
Rets == {UCI_OK, UCI_ERR_NOTFOUND}

\* the results of the library calls a command may make, the type of the
\* element uci_lookup_ext finds, and CLI_FLAG_MERGE and CLI_FLAG_NOCOMMIT
Envs ==
    [lookup : Rets, type : {"package", "section", "option"}, call : Rets, save : Rets,
     commit : Rets, load : Rets, import : Rets, list : Rets,
     merge : BOOLEAN, nocommit : BOOLEAN]

\* the command uci_cmd takes argv[0] for, -1 for none
CommandOf(word) ==
    CASE word = "show" -> "CMD_SHOW"
      [] word = "changes" -> "CMD_CHANGES"
      [] word = "export" -> "CMD_EXPORT"
      [] word = "commit" -> "CMD_COMMIT"
      [] word = "get" -> "CMD_GET"
      [] word = "set" -> "CMD_SET"
      [] word \in {"ren", "rename"} -> "CMD_RENAME"
      [] word = "revert" -> "CMD_REVERT"
      [] word = "del" -> "CMD_DEL"
      [] word = "import" -> "CMD_IMPORT"
      [] word = "help" -> "CMD_HELP"
      [] word = "add" -> "CMD_ADD"
      [] OTHER -> "-1"

\* uci_do_section_cmd; value says that argv[1] holds an '=', text that
\* uci_validate_text accepts what follows it
uci_do_section_cmd(cmd, argc, value, text, env) ==
    IF argc # 2 THEN 255
    ELSE IF value /\ ~text THEN 1
    ELSE IF value /\ cmd \notin {"CMD_SET", "CMD_RENAME"} THEN 1
    ELSE IF env.lookup # UCI_OK THEN 1
    ELSE IF env.type = "package" THEN 1
    ELSE IF cmd \in {"CMD_GET", "CMD_REVERT"} THEN 0
    ELSE IF env.call # UCI_OK THEN 1
    ELSE IF env.save # UCI_OK THEN 1
    ELSE 0

\* package_cmd: the result of uci_commit is printed and dropped
package_cmd(cmd, env) ==
    IF env.lookup # UCI_OK THEN 1 ELSE 0

\* uci_do_package_cmd: without a config every config of the list is taken
uci_do_package_cmd(cmd, argc, env) ==
    IF argc > 2 THEN 255
    ELSE IF argc = 2 THEN package_cmd(cmd, env)
    ELSE IF env.list # UCI_OK THEN 1
    ELSE 0

uci_do_import(argc, env) ==
    LET Ret == IF env.import # UCI_OK THEN env.import
               ELSE IF env.merge /\ env.load = UCI_OK THEN env.save
               ELSE env.commit
    IN  IF argc > 2 THEN 255
        ELSE IF argc # 2 /\ env.merge THEN 255
        ELSE IF Ret # UCI_OK THEN 1
        ELSE 0

\* the value of an error code in the enum of uci.h
ErrorCode(err) ==
    CASE err = UCI_OK -> 0
      [] err = UCI_ERR_MEM -> 1
      [] err = UCI_ERR_INVAL -> 2
      [] err = UCI_ERR_NOTFOUND -> 3
      [] err = UCI_ERR_IO -> 4
      [] err = UCI_ERR_PARSE -> 5
      [] err = UCI_ERR_DUPLICATE -> 6

\* uci_do_add: the result is the error code of the call that failed
uci_do_add(argc, env) ==
    IF argc # 3 THEN 255
    ELSE IF env.load # UCI_OK THEN ErrorCode(env.load)
    ELSE IF env.call # UCI_OK THEN ErrorCode(env.call)
    ELSE ErrorCode(env.save)

\* a mutant of uci_cmd: an unknown word counts as help
uci_cmd_help(word, argc, value, text, env) ==
    LET Dispatch(cmd) ==
            IF cmd \in {"CMD_GET", "CMD_SET", "CMD_DEL", "CMD_RENAME", "CMD_REVERT"}
            THEN uci_do_section_cmd(cmd, argc, value, text, env)
            ELSE IF cmd \in {"CMD_SHOW", "CMD_EXPORT", "CMD_COMMIT", "CMD_CHANGES"}
            THEN uci_do_package_cmd(cmd, argc, env)
            ELSE IF cmd = "CMD_IMPORT" THEN uci_do_import(argc, env)
            ELSE IF cmd = "CMD_ADD" THEN uci_do_add(argc, env)
            ELSE 0
    IN  IF word = "batch" THEN 0 ELSE Dispatch(CommandOf(word))

\* uci_cmd(argc, argv) with argv[0] = word; uci_batch returns 0
uci_cmd(word, argc, value, text, env) ==
    LET Dispatch(cmd) ==
            IF cmd \in {"CMD_GET", "CMD_SET", "CMD_DEL", "CMD_RENAME", "CMD_REVERT"}
            THEN uci_do_section_cmd(cmd, argc, value, text, env)
            ELSE IF cmd \in {"CMD_SHOW", "CMD_EXPORT", "CMD_COMMIT", "CMD_CHANGES"}
            THEN uci_do_package_cmd(cmd, argc, env)
            ELSE IF cmd = "CMD_IMPORT" THEN uci_do_import(argc, env)
            ELSE IF cmd = "CMD_ADD" THEN uci_do_add(argc, env)
            ELSE IF cmd = "CMD_HELP" THEN 0
            ELSE 255
    IN  IF word = "batch" THEN 0 ELSE Dispatch(CommandOf(word))

\* the exit status of main: 255 from uci_cmd prints the usage and exits 0
main(word, argc, value, text, env) ==
    LET Ret(ret) == IF ret = 255 THEN 0 ELSE ret
    IN  Ret(uci_cmd(word, argc, value, text, env))

CliCall(word, argc, value, text, env, status) ==
    [op |-> "main", word |-> word, argc |-> argc, value |-> value, text |-> text,
     env |-> env, status |-> status]

CliInit ==
    /\ canon = <<>>
    /\ savef = <<>>
    /\ pkg = NoPkg
    /\ last = Call("none", UCI_OK, Null, Null, Null)
    /\ fresh = FALSE
    /\ nops = 0
    /\ ctx = [p \in Procs |-> IdleContext]
    /\ lock = [p \in Procs |-> "none"]
    /\ calls = <<>>
    /\ faults = 0
    /\ ctxroot = <<>>

\* one run of the program: uci <word> and argc - 1 more arguments
CliRun ==
    /\ nops = 0
    /\ \E word \in Words, argc \in 1..3, value \in BOOLEAN, text \in BOOLEAN, env \in Envs :
          last' = CliCall(word, argc, value, text, env, main(word, argc, value, text, env))
    /\ nops' = 1
    /\ UNCHANGED <<canon, savef, pkg, fresh, procvars, ctxroot>>

CliNext == CliRun

SpecCli == CliInit /\ [][CliNext]_vars

\* the number of arguments the usage text gives the command
WellFormed(c) ==
    CASE CommandOf(c.word) \in {"CMD_GET", "CMD_SET", "CMD_DEL", "CMD_RENAME", "CMD_REVERT"}
            -> c.argc = 2 /\ (c.value <=> CommandOf(c.word) \in {"CMD_SET", "CMD_RENAME"})
               /\ c.text /\ c.env.type # "package"
      [] CommandOf(c.word) \in {"CMD_SHOW", "CMD_EXPORT", "CMD_COMMIT", "CMD_CHANGES"}
            -> c.argc \in {1, 2}
      [] CommandOf(c.word) = "CMD_IMPORT" -> c.argc = 2
      [] CommandOf(c.word) = "CMD_ADD" -> c.argc = 3
      [] OTHER -> TRUE

\* a library call the command makes returns an error
Fails(c) ==
    CASE CommandOf(c.word) \in {"CMD_SET", "CMD_DEL", "CMD_RENAME"}
            -> c.env.lookup # UCI_OK \/ c.env.call # UCI_OK \/ c.env.save # UCI_OK
      [] CommandOf(c.word) = "CMD_REVERT"
            -> c.env.lookup # UCI_OK \/ c.env.call # UCI_OK
      [] CommandOf(c.word) = "CMD_GET" -> c.env.lookup # UCI_OK
      [] CommandOf(c.word) = "CMD_COMMIT"
            -> IF c.argc = 2
               THEN c.env.lookup # UCI_OK \/ (~c.env.nocommit /\ c.env.commit # UCI_OK)
               ELSE c.env.list # UCI_OK
      [] CommandOf(c.word) \in {"CMD_SHOW", "CMD_EXPORT", "CMD_CHANGES"}
            -> IF c.argc = 2 THEN c.env.lookup # UCI_OK ELSE c.env.list # UCI_OK
      [] CommandOf(c.word) = "CMD_IMPORT"
            -> \/ c.env.import # UCI_OK
               \/ (c.env.merge /\ c.env.load = UCI_OK /\ c.env.save # UCI_OK)
               \/ (~(c.env.merge /\ c.env.load = UCI_OK) /\ c.env.commit # UCI_OK)
      [] CommandOf(c.word) = "CMD_ADD"
            -> c.env.load # UCI_OK \/ c.env.call # UCI_OK \/ c.env.save # UCI_OK
      [] OTHER -> FALSE

\* the word is none of the subcommands
Unknown(c) == c.word # "batch" /\ CommandOf(c.word) = "-1"

\* C25: the exit status is 0 when the subcommand succeeds, 1 when it fails
\* and 255 when the subcommand is unknown
C25_ExitStatus ==
    (last.op = "main" /\ WellFormed(last))
        => last.status = IF Unknown(last) THEN 255 ELSE IF Fails(last) THEN 1 ELSE 0

\* for get, set, del, rename, show, export, changes and import the status is
\* 0 on success and 1 on failure
C25_ExitStatusOfMost ==
    (/\ last.op = "main"
     /\ WellFormed(last)
     /\ CommandOf(last.word) \in {"CMD_GET", "CMD_SET", "CMD_DEL", "CMD_RENAME", "CMD_SHOW",
                                 "CMD_EXPORT", "CMD_CHANGES", "CMD_IMPORT"})
        => last.status = IF Fails(last) THEN 1 ELSE 0

-----------------------------------------------------------------------------
(* Properties of the lines of the save file *)

\* the first character of the line of a delta: the prefix of its command,
\* for a change the first character of the package name
FirstChar(pname, h) ==
    CASE h.cmd = "UCI_CMD_REMOVE" -> "-"
      [] h.cmd = "UCI_CMD_RENAME" -> "@"
      [] h.cmd = "UCI_CMD_LIST_ADD" -> "|"
      [] h.cmd = "UCI_CMD_ADD" -> "+"
      [] OTHER -> pname[1]

\* the lines a save has added to the save file
SavedLines == SubSeq(savef', Len(savef) + 1, Len(savef'))

\* C26: every line a save writes begins with the prefix of the command of
\* its delta: none for a change, - for a remove, @ for a rename, | for a
\* list add and + for an add
C26_SavePrefixes ==
    [][(Loaded /\ last'.op = "save" /\ last'.err = UCI_OK)
        => /\ Len(SavedLines) = Len(pkg.history)
           /\ \A i \in 1..Len(pkg.history) :
                 SavedLines[i][1] = FirstChar(pkg.name, pkg.history[i])]_vars

\* the lines of changes, removes and renames begin with their prefixes
C26_SavePrefixesOfOldCommands ==
    [][(Loaded /\ last'.op = "save" /\ last'.err = UCI_OK)
        => /\ Len(SavedLines) = Len(pkg.history)
           /\ \A i \in 1..Len(pkg.history) :
                 pkg.history[i].cmd \notin {"UCI_CMD_LIST_ADD", "UCI_CMD_ADD"}
                    => SavedLines[i][1] = FirstChar(pkg.name, pkg.history[i])]_vars

-----------------------------------------------------------------------------
(* Properties of the commit that overwrites *)

\* a commit with overwrite = true has returned UCI_OK
Overwritten ==
    Loaded /\ last'.op = "commit" /\ last'.err = UCI_OK /\ last'.value = <<"1">>

\* C27: a commit with overwrite = true writes the export of the package as it
\* is in memory, whatever the save file holds; after it the canonical file
\* is the export of the package
C27_OverwriteExports ==
    [][Overwritten
        => /\ canon' = uci_export_package(pkg)
           /\ canon' = uci_export_package(pkg')]_vars

\* when the save file holds a line the replay applies, the canonical file
\* is the export of the package as the commit leaves it
C27_OverwriteExportsAfterReplay ==
    [][(Overwritten /\ pkg.has_history
        /\ uci_load_history_changes(uci_load_history(pkg, savef, TRUE)) # 0)
        => canon' = uci_export_package(pkg')]_vars

-----------------------------------------------------------------------------
(* Properties of a set that changes nothing *)

\* the string option that section.option names in p has the value
HasValue(p, section, option, value) ==
    /\ uci_lookup_list(p.sections, section) # 0
    /\ OptionIndex(p, section, option) # 0
    /\ OptionType(p, section, option) = "string"
    /\ p.sections[uci_lookup_list(p.sections, section)]
          .options[OptionIndex(p, section, option)].string = value

\* C28: the set of a string option to the value it has logs no delta and
\* changes nothing in the tree
C28_SameValueSetIsSilent ==
    [][(/\ Loaded
        /\ last'.op = "set"
        /\ last'.option # Null
        /\ HasValue(pkg, last'.section, last'.option, last'.value))
        => last'.err = UCI_OK /\ pkg' = pkg]_vars

\* a set of a.x to the value it has was the only call after the load, and
\* the package has no delta
C28_Witness ==
    /\ Loaded
    /\ nops = 2
    /\ last.op = "set"
    /\ last.err = UCI_OK
    /\ last.option # Null
    /\ HasValue(pkg, last.section, last.option, last.value)
    /\ pkg.has_history
    /\ pkg.history = <<>>

-----------------------------------------------------------------------------
(* Properties of an option line that names a list *)

\* the stream is a section line, a list line for x and, later in the same
\* section, an option line for x at line j; the other lines are option and
\* list lines
OptionAfterList(lines, j) ==
    /\ j \in 3..Len(lines)
    /\ lines[1][1] = "config"
    /\ \A k \in 2..Len(lines) : lines[k][1] \in {"option", "list"} /\ Len(lines[k][3]) = 1
    /\ lines[j][1] = "option" /\ lines[j][2] = x
    /\ \E i \in 2..(j - 1) : lines[i][1] = "list" /\ lines[i][2] = x

\* C29: the import of a stream in which an option line names a list option
\* of its section fails
C29_OptionOnListIsError ==
    \A c \in {calls[k] : k \in DOMAIN calls \cap {1}} :
        (c.single /\ \E j \in 1..Len(canon) : OptionAfterList(canon, j))
            => c.err # UCI_OK

\* an option line on a list never adds to the list: where the import
\* succeeds and the option line is the last line for x, x is a string
C29_OptionOnListGivesString ==
    \A c \in {calls[k] : k \in DOMAIN calls \cap {1}} :
        (/\ c.single
         /\ OptionAfterList(canon, Len(canon))
         /\ c.err = UCI_OK)
            => \E o \in {c.value.sections[1].options[k] :
                            k \in DOMAIN c.value.sections[1].options} :
                  o = StringOption(x, canon[Len(canon)][3])

-----------------------------------------------------------------------------
(* Names: sets and renames that are given names with other characters *)

MaxNameOps == 2

\* names with a character that is no letter, digit or underscore, and the
\* empty name
UnsafeNames == {<<"a", "-">>, <<"x", ".">>, <<>>}

SectionInputs == {a, b, <<"a", "-">>}
OptionInputs == {x, <<"x", ".">>}
NewNames == {b, y} \cup UnsafeNames

\* a call and its arguments, whatever it returned
NameCall(op, r, section, option, value) ==
    /\ pkg' = r.p
    /\ last' = Call(op, r.err, section, option, value)
    /\ nops' = nops + 1
    /\ UNCHANGED <<canon, savef, fresh, procvars, ctxroot>>

NameSet ==
    /\ nops < 1 + MaxNameOps
    /\ Loaded
    /\ \E section \in SectionInputs :
          \/ \E value \in Types :
                NameCall("set", uci_set(pkg, section, Null, value, FALSE),
                         section, Null, value)
          \/ \E option \in OptionInputs, value \in Values :
                NameCall("set", uci_set(pkg, section, option, value, FALSE),
                         section, option, value)

NameRename ==
    /\ nops < 1 + MaxNameOps
    /\ Loaded
    /\ \E section \in SectionInputs, name \in NewNames :
          \/ NameCall("rename", uci_rename(pkg, section, Null, name, FALSE),
                      section, Null, name)
          \/ \E option \in OptionInputs :
                NameCall("rename", uci_rename(pkg, section, option, name, FALSE),
                         section, option, name)

NamesNext == Load \/ NameSet \/ NameRename

SpecNames == Init /\ [][NamesNext]_vars

\* the names of the options of a package
OptionNames(p) ==
    UNION {{p.sections[i].options[k].name : k \in DOMAIN p.sections[i].options} :
              i \in DOMAIN p.sections}

\* every section that is not anonymous and every option has a name of
\* letters, digits and underscores
NameSafeTree(p) ==
    /\ \A i \in DOMAIN p.sections :
          ~p.sections[i].anonymous => uci_validate_name(p.sections[i].name)
    /\ \A name \in OptionNames(p) : uci_validate_name(name)

\* a set or a rename was given a name that is not safe
UnsafeCall(c) ==
    \/ c.op = "set" /\ ~uci_validate_name(c.section)
    \/ c.op = "set" /\ c.option # Null /\ ~uci_validate_name(c.option)
    \/ c.op = "rename" /\ ~uci_validate_name(c.value)

\* C30: every name of a section that is not anonymous and of an option is
\* made of letters, digits and underscores, and a set or a rename that
\* brings another name fails with UCI_ERR_INVAL and changes nothing
C30_NamesStaySafe ==
    [][(Loaded /\ last'.op \in {"set", "rename"} /\ NameSafeTree(pkg))
        => /\ NameSafeTree(pkg')
           /\ UnsafeCall(last') => (last'.err = UCI_ERR_INVAL /\ pkg' = pkg)]_vars

\* a set that brings an unsafe name fails with UCI_ERR_INVAL and changes
\* nothing, and no set makes a name unsafe
C30_SetKeepsNamesSafe ==
    [][(Loaded /\ last'.op = "set" /\ NameSafeTree(pkg))
        => /\ NameSafeTree(pkg')
           /\ UnsafeCall(last') => (last'.err = UCI_ERR_INVAL /\ pkg' = pkg)]_vars

-----------------------------------------------------------------------------
(* Properties of the values held in the tree *)

\* each character of the value is a TAB or at least a blank: no line break
\* and no other control character
ValueSafe(str) ==
    \A i \in 1..Len(str) : Ord[str[i]] = 9 \/ Ord[str[i]] >= 32

\* every option value and every list item of the package is value-safe
ValueSafeTree(p) ==
    \A si \in 1..Len(p.sections) : \A oi \in 1..Len(p.sections[si].options) :
        /\ p.sections[si].options[oi].type = "string"
              => ValueSafe(p.sections[si].options[oi].string)
        /\ p.sections[si].options[oi].type = "list"
              => \A k \in 1..Len(p.sections[si].options[oi].list) :
                    ValueSafe(p.sections[si].options[oi].list[k])

\* C31: after any sets and add_lists on an imported package every option
\* value and every list item is value-safe
C31_ValuesStaySafe == ValueSafeTree(pkg)

\* uci_add_list never puts an unsafe value into the tree, and refuses one
\* with UCI_ERR_INVAL
C31_AddListKeepsValuesSafe ==
    [][(last'.op = "add_list" /\ nops' = nops + 1 /\ ValueSafeTree(pkg))
        => ValueSafeTree(pkg')]_vars

-----------------------------------------------------------------------------
(* Section types: the strings uci_validate_type accepts, tried by a set    *)
(* and by the import of a section line                                     *)

MaxTypeLen == 3

\* the characters types are made of here: a letter, a digit, the
\* underscore, two other printable characters and the blank
TypeChars == {"a", "1", "_", "-", ".", " "}

\* the strings of up to MaxTypeLen of these characters
TypeStrings ==
    UNION {[1..len -> TypeChars] : len \in 0..MaxTypeLen}

\* package n with the section `config t b`, and the stream `config <type> a`
\* for every string
TypeInit ==
    /\ \E type \in TypeStrings : canon = << <<"config", type, a>> >>
    /\ savef = <<>>
    /\ ctxroot = <<>>
    /\ pkg = uci_import(<<>>, << <<"config", t, b>> >>, n, TRUE, ContextFlags).p
    /\ last = Call("none", UCI_OK, Null, Null, Null)
    /\ fresh = FALSE
    /\ nops = 0
    /\ ctx = [flags |-> ContextFlags]
    /\ lock = [p \in Procs |-> "none"]
    /\ calls = <<>>
    /\ faults = 0

\* uci_set(ctx, p, "b", NULL, type)
TypeSet ==
    /\ nops = 0
    /\ NameCall("set", uci_set(pkg, b, Null, canon[1][2], FALSE), b, Null, canon[1][2])

\* uci_import of the stream under the name n2
TypeImport ==
    LET Done(r) ==
            /\ ctxroot' = r.root
            /\ calls' = Append(calls, Imported(n2, TRUE, r))
    IN  /\ calls = <<>>
        /\ Done(uci_import(ctxroot, canon, n2, TRUE, ctx.flags))
        /\ UNCHANGED <<canon, savef, pkg, last, fresh, nops, ctx, lock, faults>>

TypesNext == TypeSet \/ TypeImport

SpecTypes == TypeInit /\ [][TypesNext]_vars

\* the string is not empty and made of letters, digits and underscores
NameSafe(str) ==
    /\ str # <<>>
    /\ \A i \in 1..Len(str) : isalnum(Ord[str[i]]) \/ str[i] = "_"

\* the string is not empty and made of printable characters other than
\* the blank
Printable(str) ==
    /\ str # <<>>
    /\ \A i \in 1..Len(str) : Ord[str[i]] >= 33 /\ Ord[str[i]] <= 126

\* C32: a set and an import accept a section type if and only if it is not
\* empty and made of letters, digits and underscores, as names are
C32_TypesAreNames ==
    /\ last.op = "set" => (last.err = UCI_OK <=> NameSafe(last.value))
    /\ \A k \in DOMAIN calls : calls[k].err = UCI_OK <=> NameSafe(canon[1][2])

\* a set and an import accept a section type if and only if it is not empty
\* and made of printable characters other than the blank
C32_TypesArePrintable ==
    /\ last.op = "set" => (last.err = UCI_OK <=> Printable(last.value))
    /\ \A k \in DOMAIN calls : calls[k].err = UCI_OK <=> Printable(canon[1][2])

-----------------------------------------------------------------------------
(* The list of the configs: uci_list_config_files over what confdir holds  *)

\* the names an entry of confdir may have: a hidden one, two plain ones and
\* one with a dot
EntryNames == {<<".", "n">>, a, <<"b", ".", "1">>, <<"l">>, n}

\* what confdir may hold: each name is absent, a regular file or a directory
ConfDirs ==
    {{[name |-> name, dir |-> kind[name] = "dir"] :
          name \in {e \in EntryNames : kind[e] # "absent"}} :
        kind \in [EntryNames -> {"absent", "file", "dir"}]}

RECURSIVE StrLess(_, _, _)
\* s1 sorts before s2, byte by byte from position i
StrLess(s1, s2, i) ==
    IF i > Len(s2) THEN FALSE
    ELSE IF i > Len(s1) THEN TRUE
    ELSE IF s1[i] # s2[i] THEN Ord[s1[i]] < Ord[s2[i]]
    ELSE StrLess(s1, s2, i + 1)

RECURSIVE SortedEntries(_)
\* the entries in the order of their names
SortedEntries(entries) ==
    IF entries = {} THEN <<>>
    ELSE LET first == CHOOSE e \in entries :
                         \A o \in entries \ {e} : StrLess(e.name, o.name, 1)
         IN  <<first>> \o SortedEntries(entries \ {first})

\* glob(confdir/*, GLOB_MARK): the paths of the entries that are not hidden,
\* sorted, those of directories with a / at the end
glob(entries) ==
    LET Path(e) == <<"/">> \o e.name \o (IF e.dir THEN <<"/">> ELSE <<>>)
        Shown == SortedEntries({e \in entries : e.name[1] # "."})
    IN  [i \in 1..Len(Shown) |-> Path(Shown[i])]

\* get_filename: what follows the last /, NULL when nothing does
get_filename(path) ==
    IF strrchr(path, "/", Len(path)) = Len(path) THEN Null
    ELSE SubSeq(path, strrchr(path, "/", Len(path)) + 1, Len(path))

\* uci_list_config_files: the array configs, zeroed by uci_malloc, in which
\* the name of path i is stored at index i
uci_list_config_files(entries) ==
    LET Stored(p) == IF p # Null /\ uci_validate_package(p) THEN p ELSE Null
        Filled(gl) ==
            [i \in 1..(Len(gl) + 1) |->
                IF i <= Len(gl) THEN Stored(get_filename(gl[i])) ELSE Null]
    IN  IF glob(entries) = <<>> THEN [err |-> UCI_ERR_NOTFOUND, configs |-> <<>>]
        ELSE [err |-> UCI_OK, configs |-> Filled(glob(entries))]

RECURSIVE ListedNames(_, _)
\* the names a caller reads: for (p = configs; *p; p++)
ListedNames(configs, i) ==
    IF i > Len(configs) \/ configs[i] = Null THEN <<>>
    ELSE <<configs[i]>> \o ListedNames(configs, i + 1)

ListInit ==
    /\ canon \in ConfDirs
    /\ savef = <<>>
    /\ pkg = NoPkg
    /\ last = Call("none", UCI_OK, Null, Null, Null)
    /\ fresh = FALSE
    /\ nops = 0
    /\ ctx = [p \in Procs |-> IdleContext]
    /\ lock = [p \in Procs |-> "none"]
    /\ calls = <<>>
    /\ faults = 0
    /\ ctxroot = <<>>

\* uci_list_configs(ctx, &list)
ListConfigs ==
    LET Done(r) ==
            last' = [op |-> "list_configs", err |-> r.err, configs |-> r.configs,
                     value |-> ListedNames(r.configs, 1)]
    IN  /\ nops = 0
        /\ Done(uci_list_config_files(canon))
        /\ nops' = 1
        /\ UNCHANGED <<canon, savef, pkg, fresh, procvars, ctxroot>>

ListNext == ListConfigs

SpecList == ListInit /\ [][ListNext]_vars

\* the names of the regular files of confdir that uci_validate_name accepts
ConfigNames(entries) ==
    {e.name : e \in {f \in entries : ~f.dir /\ uci_validate_name(f.name)}}

\* C33: the list holds the names of the regular files of confdir that pass
\* uci_validate_name, each once: hidden files, names with a dot and
\* directories are left out, and none of them hides a name behind it
C33_ListIsTheValidFiles ==
    (last.op = "list_configs" /\ last.err = UCI_OK)
        => /\ {last.value[i] : i \in DOMAIN last.value} = ConfigNames(canon)
           /\ Len(last.value) = Cardinality(ConfigNames(canon))

\* hidden files and directories are never listed and no name is listed
\* twice; where confdir holds regular files with safe names only, the list
\* is these names
C33_ListOfPlainFiles ==
    (last.op = "list_configs" /\ last.err = UCI_OK)
        => /\ \A i \in DOMAIN last.value :
                 /\ last.value[i][1] # "."
                 /\ [name |-> last.value[i], dir |-> FALSE] \in canon
                 /\ \A k \in DOMAIN last.value : last.value[k] = last.value[i] => k = i
           /\ (\A e \in canon : ~e.dir /\ uci_validate_name(e.name))
                 => {last.value[i] : i \in DOMAIN last.value} = ConfigNames(canon)

-----------------------------------------------------------------------------
(* uci_getln on a stream of physical lines, each known by its length, by   *)
(* whether it ends with a newline and by whether its last character is a   *)
(* backslash; the buffer is followed by its size and the indexes written   *)

LINEBUF == 32
LINEBUF_MAX == 4096

MaxPhysLines == 3

\* the lengths of the lines, without the newline
LineLengths == {0, 1, 15, 16, 30, 31, 4094, 4095, 4096}

PhysLines ==
    {l \in [len : LineLengths, nl : BOOLEAN, bs : BOOLEAN] :
        (l.bs => l.len >= 1) /\ (l.nl \/ l.len >= 1)}

\* the streams: every line but the last ends with a newline
GetlnStreams ==
    {s \in UNION {[1..k -> PhysLines] : k \in 1..MaxPhysLines} :
        \A i \in 1..(Len(s) - 1) : s[i].nl}

\* the bytes of a line in the stream
Bytes(l) == l.len + (IF l.nl THEN 1 ELSE 0)

RECURSIVE getln_loop(_, _, _, _, _)
\* the do-loop of uci_getln: rest is what is left of the line in the
\* stream, newline included, 0 at the end of the file; oob says that
\* p[ofs] = 0 was written at or behind buf[bufsz]
getln_loop(bufsz, ofs, rest, nl, oob) ==
    LET Read == IF rest < bufsz - ofs - 1 THEN rest ELSE bufsz - ofs - 1
        Return(err, end, read) ==
            [err |-> err, bufsz |-> bufsz, end |-> end, rest |-> rest - read,
             index |-> 2 * ofs, oob |-> oob \/ 2 * ofs >= bufsz]
    IN  IF rest = 0 \/ Read = 0 THEN Return(UCI_OK, ofs, 0)
        ELSE IF rest - Read = 0 /\ nl THEN Return(UCI_OK, ofs + Read - 1, Read)
        ELSE IF bufsz > LINEBUF_MAX \div 2 THEN Return(UCI_ERR_PARSE, ofs + Read, Read)
        ELSE getln_loop(bufsz * 2, ofs + Read, rest - Read, nl, oob \/ 2 * ofs >= bufsz)

\* uci_getln(ctx, offset): the buffer is allocated on the first call
uci_getln(bufsz, offset, rest, nl) ==
    getln_loop(IF bufsz = 0 THEN LINEBUF ELSE bufsz, offset, rest, nl, FALSE)

\* one call of uci_getln: the line it read from, what was left of it before
\* the call, the offset, and what the call gave; crash is what the write
\* behind the buffer may have done
GetlnCall(line, left, offset, r, crash) ==
    [op |-> "getln", line |-> line, left |-> left, offset |-> offset, err |-> r.err,
     end |-> r.end, rest |-> r.rest, bufsz |-> r.bufsz, index |-> r.index,
     oob |-> r.oob, crash |-> crash]

GetlnInit ==
    /\ canon \in GetlnStreams
    /\ savef = [line |-> 1, rest |-> Bytes(canon[1])]
    /\ pkg = NoPkg
    /\ last = Call("none", UCI_OK, Null, Null, Null)
    /\ fresh = FALSE
    /\ nops = 0
    /\ ctx = [bufsz |-> 0]
    /\ lock = [p \in Procs |-> "none"]
    /\ calls = <<>>
    /\ faults = 0
    /\ ctxroot = <<>>

\* the position in the stream after a call that left rest bytes of the line
Position(rest) ==
    IF rest = 0 /\ savef.line <= Len(canon)
    THEN [line |-> savef.line + 1,
          rest |-> IF savef.line < Len(canon) THEN Bytes(canon[savef.line + 1]) ELSE 0]
    ELSE [line |-> savef.line, rest |-> rest]

\* the line the stream is at, an empty one at the end of the file
CurrentLine ==
    IF savef.line <= Len(canon) THEN canon[savef.line]
    ELSE [len |-> 0, nl |-> FALSE, bs |-> FALSE]

GetlnDone(offset, r) ==
    /\ \E crash \in {c \in BOOLEAN : c => r.oob} :
          last' = GetlnCall(CurrentLine, savef.rest, offset, r, crash)
    /\ savef' = Position(r.rest)
    /\ ctx' = [bufsz |-> r.bufsz]
    /\ nops' = nops + 1
    /\ UNCHANGED <<canon, pkg, fresh, lock, calls, faults, ctxroot>>

\* the stream is read on: no error, no crash, and the last call did not
\* find the end of the file
Readable ==
    last.op = "getln" => (last.err = UCI_OK /\ ~last.crash /\ last.left > 0)

\* the last call has read a whole line that ends with a backslash
AfterBackslash ==
    /\ last.op = "getln"
    /\ last.line.bs
    /\ last.left = Bytes(last.line)
    /\ last.rest = 0

\* uci_getln(ctx, 0), as uci_import calls it for every line
GetLine ==
    /\ Readable
    /\ ~AfterBackslash
    /\ GetlnDone(0, uci_getln(ctx.bufsz, 0, savef.rest, CurrentLine.nl))

\* uci_getln(ctx, *str - pctx->buf), as parse_backslash calls it behind a
\* backslash at the end of the line: the offset is behind the end of the line
GetContinuation ==
    /\ Readable
    /\ AfterBackslash
    /\ GetlnDone(last.end + 1,
                 uci_getln(ctx.bufsz, last.end + 1, savef.rest, CurrentLine.nl))

GetlnNext == GetLine \/ GetContinuation

SpecGetln == GetlnInit /\ [][GetlnNext]_vars


\* C34: `line too long` is raised only for a line of more than LINEBUF_MAX
\* bytes; a line within the limit is read whole, with or without a newline
\* at its end and whatever was read before, and the buffer never has more
\* than LINEBUF_MAX bytes
C34_LineTooLongOnlyBeyondMax ==
    (last.op = "getln" /\ last.offset = 0 /\ last.left > 0)
        => /\ last.err # UCI_OK => Bytes(last.line) > LINEBUF_MAX
           /\ Bytes(last.line) <= LINEBUF_MAX
                 => last.err = UCI_OK /\ last.end = last.line.len /\ last.rest = 0
           /\ last.bufsz <= LINEBUF_MAX

\* the buffer never has more than LINEBUF_MAX bytes, and a line that ends
\* with a newline and has fewer than LINEBUF_MAX bytes is read whole
C34_ShorterLinesAreRead ==
    (last.op = "getln" /\ last.offset = 0 /\ last.left > 0)
        => /\ (last.line.nl /\ Bytes(last.line) < LINEBUF_MAX)
                 => last.err = UCI_OK /\ last.end = last.line.len /\ last.rest = 0
           /\ last.err # UCI_OK => Bytes(last.line) >= LINEBUF_MAX \/ ~last.line.nl
           /\ last.bufsz <= LINEBUF_MAX


\* C39: every write of uci_getln into the line buffer is at an index below
\* the size of the buffer, for every offset and every length of the line
C39_WritesInsideBuffer ==
    last.op = "getln" => ~last.oob /\ last.end < last.bufsz

\* the calls with offset 0 write inside the buffer, and so does fgets in
\* every call
C39_WritesInsideBufferAtOffset0 ==
    last.op = "getln"
        => /\ last.end < last.bufsz
           /\ last.offset = 0 => ~last.oob

-----------------------------------------------------------------------------
(* The replay of a save file that holds malformed lines *)

MaxDeltaLines == 3

\* lines of a save file for package n: changes, a remove, a rename, a
\* change with a dot in its value, and malformed ones: another package, a
\* section name with a dash, no package at all, a line longer than
\* LINEBUF_MAX
DeltaLines ==
    { n \o Dot \o a \o Dot \o x \o <<"=">> \o v2,
      n \o Dot \o a \o Dot \o y \o <<"=">> \o v1,
      n \o Dot \o b \o <<"=">> \o t,
      <<"-">> \o n \o Dot \o a \o Dot \o x,
      <<"@">> \o n \o Dot \o a \o <<"=">> \o b,
      n \o Dot \o a \o Dot \o x \o <<"=">> \o v12,
      n2 \o Dot \o a \o Dot \o x \o <<"=">> \o v2,
      n \o Dot \o <<"a", "-">> \o Dot \o x \o <<"=">> \o v2,
      <<"=">> \o v2,
      LineTooLong }

ReplayInit ==
    /\ canon = << <<"config", t, a>>, <<"option", x, v1>> >>
    /\ savef \in UNION {[1..k -> DeltaLines] : k \in 1..MaxDeltaLines}
    /\ pkg = NoPkg
    /\ last = Call("none", UCI_OK, Null, Null, Null)
    /\ fresh = FALSE
    /\ nops = 0
    /\ ctx = [p \in Procs |-> IdleContext]
    /\ lock = [p \in Procs |-> "none"]
    /\ calls = <<>>
    /\ faults = 0
    /\ ctxroot = <<>>

ReplayNext == Load \/ Unload

SpecReplay == ReplayInit /\ [][ReplayNext]_vars

\* the line is a delta of the package: an optional - or @, the package, a
\* safe section name, an optional safe option name; no value behind a -,
\* a safe name behind a @ and for the type of a section, a safe value
\* for an option
WellFormedDelta(pname, line) ==
    LET Fields(tuple, delete, rename) ==
            /\ tuple.err = UCI_OK
            /\ tuple.package = pname
            /\ tuple.section # Null /\ NameSafe(tuple.section)
            /\ tuple.option # Null => NameSafe(tuple.option)
            /\ delete => tuple.value = Null
            /\ ~delete => tuple.value # Null
            /\ (rename \/ (~delete /\ tuple.option = Null)) => NameSafe(tuple.value)
            /\ (~delete /\ ~rename /\ tuple.option # Null) => ValueSafe(tuple.value)
    IN  /\ line # LineTooLong
        /\ line # <<>>
        /\ IF line[1] = "-" THEN Fields(uci_parse_tuple(Tail(line)), TRUE, FALSE)
           ELSE IF line[1] = "@" THEN Fields(uci_parse_tuple(Tail(line)), FALSE, TRUE)
           ELSE Fields(uci_parse_tuple(line), FALSE, FALSE)

\* the package after the delta of a well-formed line is applied
Applied(p, line) ==
    LET Fields(tuple, delete, rename) ==
            IF rename THEN uci_rename(p, tuple.section, tuple.option, tuple.value, TRUE).p
            ELSE IF delete THEN uci_delete(p, tuple.section, tuple.option, TRUE).p
            ELSE uci_set(p, tuple.section, tuple.option, tuple.value, TRUE).p
    IN  IF line[1] = "-" THEN Fields(uci_parse_tuple(Tail(line)), TRUE, FALSE)
        ELSE IF line[1] = "@" THEN Fields(uci_parse_tuple(Tail(line)), FALSE, TRUE)
        ELSE Fields(uci_parse_tuple(line), FALSE, FALSE)

RECURSIVE AppliedInOrder(_, _, _)
\* the package after every well-formed line of lines[i..] is applied, in
\* the order of the file, and every other line is skipped
AppliedInOrder(p, lines, i) ==
    IF i > Len(lines) THEN p
    ELSE IF WellFormedDelta(p.name, lines[i])
    THEN AppliedInOrder(Applied(p, lines[i]), lines, i + 1)
    ELSE AppliedInOrder(p, lines, i + 1)

\* the package as the canonical file alone gives it
Canonical == uci_import(<<>>, canon, n, TRUE, ContextFlags).p

\* C35: a load succeeds whatever malformed lines the save file holds, and
\* the package is the canonical one with every well-formed line applied in
\* file order, before and behind the malformed ones
C35_MalformedLinesSkipped ==
    last.op = "load"
        => /\ last.err = UCI_OK
           /\ pkg.sections = AppliedInOrder(Canonical, savef, 1).sections

\* the same for save files without a line longer than LINEBUF_MAX and
\* without a value that is no name
C35_SkippedWhereValuesAreNames ==
    (/\ last.op = "load"
     /\ \A i \in DOMAIN savef :
           /\ savef[i] # LineTooLong
           /\ savef[i] # n \o Dot \o a \o Dot \o x \o <<"=">> \o v12)
        => /\ last.err = UCI_OK
           /\ pkg.sections = AppliedInOrder(Canonical, savef, 1).sections

\* a load has applied a line behind a malformed one
C35_Witness ==
    /\ last.op = "load"
    /\ last.err = UCI_OK
    /\ Len(savef) = 3
    /\ savef[2] = n2 \o Dot \o a \o Dot \o x \o <<"=">> \o v2
    /\ savef[3] = n \o Dot \o a \o Dot \o y \o <<"=">> \o v1
    /\ OptionIndex(pkg, a, y) # 0

-----------------------------------------------------------------------------
(* Properties of the state a commit leaves *)

\* a commit of a package with has_history has returned UCI_OK
Committed ==
    Loaded /\ pkg.has_history /\ last'.op = "commit" /\ last'.err = UCI_OK

\* C36: after a successful commit, in either mode, the package has no
\* pending delta and the save file holds no line
C36_CommitLeavesNothingPending ==
    [][Committed => pkg'.history = <<>> /\ savef' = <<>>]_vars

\* after a successful commit, in either mode, the save file holds no line
C36_CommitEmptiesSaveFile ==
    [][Committed => savef' = <<>>]_vars

-----------------------------------------------------------------------------
(* Extended and plain lookups of an option that may not be there *)

\* the options looked up: x is in every section, y in none
LookupOptions == {x, y}

\* uci_lookup_ext(ctx, &e, "n.@type[idx].option") and, for the plain form,
\* uci_lookup_ext(ctx, &e, "n.section.option")
LookupOption ==
    /\ nops = 0
    /\ \/ \E type \in Types, idx \in -MaxIndex..MaxIndex, option \in LookupOptions :
             last' = [LookupCall(type, idx, option,
                                 uci_lookup_ext(ctxroot, ExtendedPtr(n, type, idx, option)))
                         EXCEPT !.op = "lookup_ext"]
       \/ \E si \in DOMAIN pkg.sections, option \in LookupOptions :
             last' = [LookupCall(pkg.sections[si].type, si, option,
                                 uci_lookup_ext(ctxroot,
                                     n \o Dot \o pkg.sections[si].name \o Dot \o option))
                         EXCEPT !.op = "lookup_plain"]
    /\ nops' = 1
    /\ UNCHANGED <<canon, savef, pkg, fresh, ctx, lock, calls, faults, ctxroot>>

LookupOptionNext == LookupOption

SpecLookupOption == LookupInit /\ [][LookupOptionNext]_vars

\* C37: a lookup of an option returns UCI_OK only with the option found;
\* when the section reached has no option of that name the extended form
\* fails with UCI_ERR_NOTFOUND as the plain form does
C37_SuccessMeansElement ==
    last.op \in {"lookup_ext", "lookup_plain"}
        => /\ last.err = UCI_OK => last.option # 0
           /\ last.name = y => last.err = UCI_ERR_NOTFOUND

\* the plain form returns UCI_OK only with the option found and fails with
\* UCI_ERR_NOTFOUND for an option that is not there
C37_PlainLookupFindsOrFails ==
    last.op = "lookup_plain"
        => /\ last.err = UCI_OK => last.option # 0
           /\ last.name = y => last.err = UCI_ERR_NOTFOUND

-----------------------------------------------------------------------------
(* Lock order: the canonical file and the save file of package n, each     *)
(* with its own flock; uci_file_load, uci_save and uci_file_commit are     *)
(* followed from one uci_open_stream to the next                           *)

MaxLockOps == 2     \* calls of load, save and commit of each process

Files == {"canon", "savef"}

NoLocks == [f \in Files |-> "none"]

\* a context with no call in progress and no descriptor left open
UnlockedContext ==
    [pc |-> "idle", op |-> "none", file |-> "none", stage |-> 0, dump |-> FALSE,
     err |-> UCI_OK, left |-> {}]

LockInit ==
    /\ canon = << <<"config", t, a>> >>
    /\ savef = <<>>
    /\ pkg = NoPkg
    /\ last = Call("none", UCI_OK, Null, Null, Null)
    /\ fresh = FALSE
    /\ nops = 0
    /\ ctx = [p \in Procs |-> UnlockedContext]
    /\ lock = [p \in Procs |-> NoLocks]
    /\ calls = <<>>
    /\ faults = 0
    /\ ctxroot = <<>>

\* flock(fd, write ? LOCK_EX : LOCK_SH) on a descriptor p has just opened on
\* file does not have to wait: no other descriptor on the file, of a call in
\* progress or left open by any process, p included, holds a conflicting lock
Granted(p, file, write) ==
    /\ \A q \in Procs \ {p} : ~Conflicts(lock[q][file], write)
    /\ \A q \in Procs : \A d \in ctx[q].left :
          ~(d.file = file /\ Conflicts(d.lock, write))

\* the call of p returns
LockReturn(p, err, left) ==
    /\ ctx' = [ctx EXCEPT ![p] = [UnlockedContext EXCEPT !.err = err, !.left = left]]
    /\ calls' = Returned(p, ctx[p].op, err, Null)

\* p calls load, save or commit: the first uci_open_stream of the call has
\* opened its file. dump: the commit has deltas of its own to write to the
\* save file first (has_history, not overwrite, history not empty)
LOpen(p) ==
    /\ ctx[p].pc = "idle"
    /\ Cardinality(CallsOf(p)) < MaxLockOps
    /\ \E op \in StreamOps, dump \in BOOLEAN :
          /\ dump => op = "commit"
          /\ ctx' = [ctx EXCEPT ![p].pc = "flock", ![p].op = op,
                                ![p].file = StreamFile(op), ![p].stage = 1,
                                ![p].dump = dump, ![p].err = UCI_OK]
    /\ UNCHANGED <<canon, savef, onevars, lock, calls, faults, ctxroot>>

\* flock(fd, write ? LOCK_EX : LOCK_SH) returns 0
LFlock(p) ==
    /\ ctx[p].pc = "flock"
    /\ Granted(p, ctx[p].file, StreamWrite(ctx[p].op))
    /\ lock' = [lock EXCEPT ![p][ctx[p].file] =
                   IF StreamWrite(ctx[p].op) THEN "ex" ELSE "sh"]
    /\ ctx' = [ctx EXCEPT ![p].pc = "fdopen"]
    /\ UNCHANGED <<canon, savef, onevars, calls, faults, ctxroot>>

\* lseek(fd, 0, pos) and fdopen(fd, ...) succeed
LOpened(p) ==
    /\ ctx[p].pc = "fdopen"
    /\ ctx' = [ctx EXCEPT ![p].pc = "body"]
    /\ UNCHANGED <<canon, savef, onevars, lock, calls, faults, ctxroot>>

\* lseek or fdopen fails: goto error, UCI_THROW(ctx, UCI_ERR_IO) with the
\* descriptor open and locked. The first stream of a call: the call returns
\* the error. A stream on the save file inside a load or a commit: the trap
\* of uci_save or of uci_load_history_file catches the error, and the call
\* goes on to close the canonical file
LOpenedFails(p) ==
    LET Left == ctx[p].left \cup
                    {[file |-> ctx[p].file, lock |-> lock[p][ctx[p].file]]}
    IN  /\ ctx[p].pc = "fdopen"
        /\ Fault
        /\ lock' = [lock EXCEPT ![p][ctx[p].file] = "none"]
        /\ IF ctx[p].stage = 1
           THEN LockReturn(p, UCI_ERR_IO, Left)
           ELSE /\ ctx' = [ctx EXCEPT ![p].pc = "close", ![p].file = "canon",
                                      ![p].left = Left,
                                      ![p].err = IF ctx[p].stage = 2 /\ ctx[p].op = "commit"
                                                 THEN UCI_ERR_IO ELSE @]
                /\ UNCHANGED calls
        /\ UNCHANGED <<canon, savef, onevars, ctxroot>>

\* the call works on the stream it has opened and goes on to its next
\* uci_open_stream, closing a stream on the save file that it is done with:
\*   uci_file_load    canonical file LOCK_SH, then uci_load_history opens the
\*                    save file LOCK_SH if stat finds it;
\*   uci_save         save file LOCK_EX;
\*   uci_file_commit  canonical file LOCK_EX, then uci_save (with deltas of
\*                    its own) and uci_load_history(ctx, p, true), each with
\*                    the save file LOCK_EX if open finds it
LBody(p) ==
    LET Goto(pc, file, stage) ==
            ctx' = [ctx EXCEPT ![p].pc = pc, ![p].file = file, ![p].stage = stage]
        Op == ctx[p].op
        Stage == ctx[p].stage
    IN  /\ ctx[p].pc = "body"
        /\ \E exists \in BOOLEAN :
              IF Op = "save" THEN Goto("close", "savef", 1)
              ELSE IF Stage = 1 /\ Op = "commit" /\ ctx[p].dump
              THEN Goto("flock", "savef", 2)
              ELSE IF Stage = 1 /\ Op = "load"
              THEN Goto(IF exists THEN "flock" ELSE "close",
                        IF exists THEN "savef" ELSE "canon", 2)
              ELSE IF Stage \in {1, 2} /\ Op = "commit"
              THEN Goto(IF exists THEN "flock" ELSE "close",
                        IF exists THEN "savef" ELSE "canon", 3)
              ELSE Goto("close", "canon", Stage)
        /\ lock' = [lock EXCEPT ![p]["savef"] = IF Op = "save" THEN @ ELSE "none"]
        /\ UNCHANGED <<canon, savef, onevars, calls, faults, ctxroot>>

\* done: uci_close_stream(f) of the first stream, and the return of the call
LClose(p) ==
    /\ ctx[p].pc = "close"
    /\ lock' = [lock EXCEPT ![p] = NoLocks]
    /\ LockReturn(p, ctx[p].err, ctx[p].left)
    /\ UNCHANGED <<canon, savef, onevars, faults, ctxroot>>

LockNext ==
    \E p \in Procs :
        \/ LOpen(p)
        \/ LFlock(p)
        \/ LOpened(p)
        \/ LOpenedFails(p)
        \/ LBody(p)
        \/ LClose(p)

SpecLocks == LockInit /\ [][LockNext]_vars

\* Every process is scheduled: a call in progress takes its next step, and
\* flock returns once the lock can be granted for good. No fairness is
\* asked of the faults, nor of the start of a call.
LockFairness ==
    \A p \in Procs :
        /\ WF_vars(LFlock(p))
        /\ WF_vars(LOpened(p))
        /\ WF_vars(LBody(p))
        /\ WF_vars(LClose(p))

SpecLocksFair == SpecLocks /\ LockFairness

\* p is inside flock on a descriptor of file and has to wait
Waiting(p, file) ==
    /\ ctx[p].pc = "flock"
    /\ ctx[p].file = file
    /\ ~Granted(p, file, StreamWrite(ctx[p].op))

\* a descriptor of p holds a lock on file
HoldsLock(p, file) ==
    \/ lock[p][file] # "none"
    \/ \E d \in ctx[p].left : d.file = file /\ d.lock # "none"

\* some descriptor was left open with its lock
Leaked == \E q \in Procs : \E d \in ctx[q].left : d.lock # "none"

\* C38: under any interleaving of load, save and commit of two processes on
\* package n, every call that has started eventually returns
C38_OperationsComplete ==
    \A p \in Procs : (ctx[p].pc # "idle") ~> (ctx[p].pc = "idle")

\* every call returns as long as no failed uci_open_stream has left a locked
\* descriptor behind
C38_CompleteUnlessLeaked ==
    \A p \in Procs : (ctx[p].pc # "idle") ~> (ctx[p].pc = "idle" \/ Leaked)

\* a process that holds a lock on the save file never waits for the lock on
\* the canonical file
C38_SaveLockNeverWaitsForCanon ==
    \A p \in Procs : Waiting(p, "canon") => ~HoldsLock(p, "savef")

\* the streams of a call in progress are locked in one order: the canonical
\* file first
C38_OpenStreamsInOrder ==
    \A p \in Procs : Waiting(p, "canon") => lock[p]["savef"] = "none"

\* two calls wait for each other, and for good: one for the save file, which
\* a descriptor left open by the other holds, the other for the canonical file
C38_Deadlocked ==
    \E p, q \in Procs :
        /\ p # q
        /\ Waiting(p, "savef") /\ lock[p]["canon"] = "ex"
        /\ Waiting(q, "canon") /\ HoldsLock(q, "savef")

=============================================================================
